---------------------------- MODULE Spec2Model ----------------------------
(***************************************************************************)
(* Fan-curve control subsystem of Fan-Curve-App.                           *)
(*                                                                         *)
(*   - the curve model of src/src/fan.rs (FanCurve, its point list and     *)
(*     calculate_duty_for_temperature), specification SpecCurve;           *)
(*   - the duty <-> raw PWM conversions of src/src/fan_monitor.rs,         *)
(*     specification SpecPwm;                                              *)
(*   - the control surface and the persistence of the daemon of            *)
(*     src/src/daemon/mod.rs, specification Spec.                          *)
(***************************************************************************)
EXTENDS Integers, Naturals, Sequences, FiniteSets, TLC

VARIABLES
    \* ---- curve model (fan.rs) ----
    points,      \* FanCurve.points of the curve under study
    calc,        \* last call of calculate_duty_for_temperature on `points`
    \* ---- PWM conversion (fan_monitor.rs) ----
    duty_req,    \* duty (ten-thousandths) computed for the next write
    pwm_written, \* whether that duty has been written to the pwm<N> file
    pwm_reg,     \* content of the pwm<N> file, 0..255
    duty_read,   \* duty last returned by read_current_fan_duty_from_pwm
    \* ---- daemon (daemon/mod.rs) ----
    config,               \* FanCurveDaemon.config (FanCurveConfig)
    current_curve_index,  \* FanCurveDaemon.current_curve_index
    config_lock,          \* holder of the config mutex, 0 when free
    index_lock,           \* holder of the current_curve_index mutex
    config_file,          \* the file at get_config_path()
    tmp_file,             \* the file at config_path.with_extension("tmp")
    pc,                   \* position of each caller in its method
    call,                 \* method and arguments of each caller's call
    retries,              \* local `retries` of ensure_config_saved
    result,               \* what the method returned to the caller
    attempts,             \* save_config_internal calls made by this call
    saved,                \* of which returned Ok
    validation,           \* outcome of the post-write validation
    pre,                  \* daemon state when the call started
    ncalls,               \* calls made so far
    \* ---- FanCurveConfig persistence (fan.rs) ----
    self_config,     \* the FanCurveConfig save_to_file is called on
    path_file,       \* the file at the path given to save/load
    loaded_config,   \* what load_from_file last returned
    persist_result,  \* what validate_persistence returned
    \* ---- power daemon (src/mod.rs) ----
    etc_dir,         \* /etc/system76-power/fan_curves
    var_dir,         \* /var/lib/system76-power/fan_curves
    loaded_curves,   \* what LoadAllFanCurves last returned
    applied_curve,   \* the curve the fan daemon runs
    power_pc,        \* position inside SetFanCurvePersistent
    power_call,      \* its arguments
    power_result,    \* what it returned
    power_steps,     \* the steps it has completed, in order
    power_calls,     \* calls made so far
    \* ---- fan detector (fan_detector.rs) ----
    hwmon,           \* files of the matched hwmon directory, per fan number
    fans,            \* FanDetector.fans
    detector_result, \* last FanDetector call: its result and its writes
    \* ---- fan monitor (fan_monitor.rs) ----
    is_monitoring,   \* FanMonitor.is_monitoring
    current_fan_curve,      \* FanMonitor.current_fan_curve, NoCurve for None
    system76_power_client,  \* whether FanMonitor.system76_power_client is Some
    mon_pc,          \* where the task running run_monitoring_loop stands
    ticks,           \* calls of log_fan_data made by the loop
    sleeps,          \* sleeps of the loop
    last_tick,       \* what the last call of log_fan_data did
    \* ---- power daemon main loop (src/mod.rs) ----
    CONTINUE,        \* the static AtomicBool
    daemon_pc,       \* where daemon() stands
    daemon_result,   \* what daemon() returned
    main_pc,         \* where main_loop stands
    signal_pc,       \* where signal_handling stands
    caught,          \* the signal caught
    loads,           \* loads of CONTINUE made by the loop
    fan_steps,       \* calls of fan_daemon.step()
    steps_after_clear, \* those made after CONTINUE was cleared
    \* ---- daemon start-up (daemon/mod.rs) ----
    startup_pc,      \* where FanCurveDaemon::new stands
    thelio           \* whether FanCurveDaemon.thelio is Some

curve_vars  == <<points, calc>>
pwm_vars    == <<duty_req, pwm_written, pwm_reg, duty_read>>
mem_vars    == <<config, current_curve_index>>
lock_vars   == <<config_lock, index_lock>>
file_vars   == <<config_file, tmp_file>>
caller_vars == <<pc, call, retries, result, attempts, saved, validation, pre,
                 ncalls>>
daemon_vars == <<mem_vars, lock_vars, file_vars, caller_vars>>
persist_vars == <<self_config, path_file, loaded_config, persist_result>>
dir_vars    == <<etc_dir, var_dir>>
scan_vars   == <<dir_vars, loaded_curves>>
power_vars  == <<applied_curve, power_pc, power_call, power_result,
                 power_steps, power_calls>>
detector_vars == <<hwmon, fans, detector_result>>
monitor_vars == <<is_monitoring, current_fan_curve, system76_power_client,
                  mon_pc, ticks, sleeps, last_tick>>
main_vars   == <<CONTINUE, daemon_pc, daemon_result, main_pc, signal_pc,
                 caught, loads, fan_steps, steps_after_clear>>
startup_vars == <<startup_pc, thelio>>
late_vars   == <<monitor_vars, main_vars, startup_vars>>
ext_vars    == <<persist_vars, scan_vars, power_vars, detector_vars,
                 late_vars>>
early_vars  == <<curve_vars, pwm_vars, persist_vars, scan_vars,
                 power_vars, detector_vars>>
beside_monitor == <<early_vars, main_vars, startup_vars>>
beside_tick == <<curve_vars, pwm_vars, persist_vars, scan_vars, power_vars,
                 fans, detector_result, main_vars, startup_vars>>
beside_main == <<early_vars, monitor_vars, startup_vars>>
beside_startup == <<early_vars, monitor_vars, main_vars>>
vars        == <<curve_vars, pwm_vars, daemon_vars, ext_vars>>

NoValue == -1            \* Option::None of a number
NoCalc  == [valid |-> FALSE, temp |-> 0, duty |-> 0]

-----------------------------------------------------------------------------
(* Machine integers                                                         *)

\* `x as i16` for a non-negative x: keep the low 16 bits, two's complement
AsI16(x) ==
    LET w == x % 65536 IN IF w >= 32768 THEN w - 65536 ELSE w

\* `x as u8`: keep the low 8 bits
AsU8(x) == x % 256

RECURSIVE BitLen(_)
BitLen(x) == IF x = 0 THEN 0 ELSE 1 + BitLen(x \div 2)

-----------------------------------------------------------------------------
(* IEEE-754 binary32 arithmetic (f32), round to nearest, ties to even.     *)
(* A non-negative f32 value is the record [m, s] standing for m / 2^s,     *)
(* with m <= 2^24 (24 significant bits); [m |-> 0] is zero.  Integers      *)
(* below 2^24 are exact in f32, so `x as f32` of an i16 or u16 and the     *)
(* differences of two of them carry no rounding.                           *)

F32Zero == [m |-> 0, s |-> 0]

\* long division, one quotient bit per step, until 24 significant bits
RECURSIVE DivBits(_, _, _, _)
DivBits(q, r, s, b) ==
    IF q >= 8388608 THEN [q |-> q, r |-> r, s |-> s]
    ELSE IF 2 * r >= b THEN DivBits(2 * q + 1, 2 * r - b, s + 1, b)
                       ELSE DivBits(2 * q, 2 * r, s + 1, b)

\* a / b in f32, for integers 0 <= a <= b, b > 0
F32Div(a, b) ==
    IF a = 0 THEN F32Zero
    ELSE LET d  == DivBits(a \div b, a % b, 0, b)
             up == (2 * d.r > b) \/ (2 * d.r = b /\ d.q % 2 = 1)
         IN  [m |-> d.q + (IF up THEN 1 ELSE 0), s |-> d.s]

\* f * D in f32, for an f32 value f <= 1 and an integer 0 <= D < 2^16.
\* The exact product f.m * D (up to 40 bits) is held as H * 4096 + L.
F32Mul(f, D) ==
    IF f.m = 0 \/ D = 0 THEN F32Zero
    ELSE LET lowprod == (f.m % 4096) * D
             H    == (f.m \div 4096) * D + lowprod \div 4096
             L    == lowprod % 4096
             bits == IF H > 0 THEN BitLen(H) + 12 ELSE BitLen(L)
             sh   == IF bits > 24 THEN bits - 24 ELSE 0
             q    == IF sh = 0 THEN H * 4096 + L
                     ELSE IF sh <= 12 THEN H * 2^(12 - sh) + L \div 2^sh
                     ELSE H \div 2^(sh - 12)
             rem  == IF sh = 0 THEN 0
                     ELSE IF sh <= 12 THEN L % 2^sh
                     ELSE (H % 2^(sh - 12)) * 4096 + L
             half == IF sh = 0 THEN 1 ELSE 2^(sh - 1)
             up   == sh > 0 /\ (rem > half \/ (rem = half /\ q % 2 = 1))
         IN  [m |-> q + (IF up THEN 1 ELSE 0), s |-> f.s - sh]

\* (d1 + x).round() or (d1 - x).round(), the sum being rounded to f32 first
\* and then to the nearest integer, halves away from zero; d1 an integer
\* 0 <= d1 < 2^16, x an f32 value with 0 <= x < 2^16 and x <= d1 when
\* subtracted.  With I the integer part of the exact sum, the result is I or
\* I + 1, and it is I + 1 exactly when the f32 sum reaches I + 1/2, that is
\* when the exact sum is within half a unit in the last place of I + 1/2.
F32AddRound(d1, positive, x) ==
    IF x.m = 0 THEN d1
    ELSE IF x.s >= 27 THEN d1          \* x <= 1/8: the sum rounds to d1
    ELSE LET scale == 2^x.s
             xi    == x.m \div scale
             xf    == x.m % scale                   \* fraction, in 2^-s
             I     == IF positive THEN d1 + xi
                      ELSE IF xf = 0 THEN d1 - xi ELSE d1 - xi - 1
             e     == x.s + (IF I = 0 THEN -1 ELSE BitLen(I)) - 25
             hulp  == IF e >= 0 THEN 2^e ELSE 0     \* half ulp, in 2^-s
             up    == IF positive THEN xf >= scale \div 2 - hulp
                      ELSE xf # 0 /\ xf <= scale \div 2 + hulp
         IN  I + (IF up THEN 1 ELSE 0)

-----------------------------------------------------------------------------
(* The curve model: src/src/fan.rs                                          *)

FanPoint(temp, duty) == [temp |-> temp, duty |-> duty]

\* Vec::sort_by_key(|p| p.temp): a stable sort
RECURSIVE InsertByTemp(_, _)
InsertByTemp(sorted, p) ==
    IF sorted = <<>> THEN <<p>>
    ELSE IF sorted[Len(sorted)].temp <= p.temp THEN Append(sorted, p)
    ELSE Append(InsertByTemp(SubSeq(sorted, 1, Len(sorted) - 1), p),
                sorted[Len(sorted)])

RECURSIVE sort_by_temp(_)
sort_by_temp(ps) ==
    IF ps = <<>> THEN <<>>
    ELSE InsertByTemp(sort_by_temp(SubSeq(ps, 1, Len(ps) - 1)), ps[Len(ps)])

\* add_point with the sort left out
add_point_unsorted(ps, temp, duty) == Append(ps, FanPoint(temp, duty))

\* FanCurve::add_point
add_point(ps, temp, duty) == sort_by_temp(Append(ps, FanPoint(temp, duty)))

\* remove_last_point taking the first point instead of the last
remove_first_point(ps) == IF ps = <<>> THEN <<>> ELSE Tail(ps)

\* FanCurve::remove_last_point (Vec::pop)
remove_last_point(ps) ==
    IF ps = <<>> THEN <<>> ELSE SubSeq(ps, 1, Len(ps) - 1)

\* FanCurve::remove_point (Vec::remove under the index guard)
remove_point(ps, index) ==
    IF index < Len(ps)
    THEN SubSeq(ps, 1, index) \o SubSeq(ps, index + 2, Len(ps))
    ELSE ps

\* the interpolation with duty1 and duty2 exchanged
interpolate_swapped(point1, point2, temp_tenths) ==
    IF point2.temp = point1.temp
    THEN 0
    ELSE LET factor == F32Div(temp_tenths - point1.temp,
                              point2.temp - point1.temp)
         IN  IF point1.duty >= point2.duty
             THEN F32AddRound(point2.duty, TRUE,
                              F32Mul(factor, point1.duty - point2.duty))
             ELSE F32AddRound(point2.duty, FALSE,
                              F32Mul(factor, point2.duty - point1.duty))

\* the interpolation with the factor measured from point2
interpolate_inverted(point1, point2, temp_tenths) ==
    IF point2.temp = point1.temp
    THEN 0
    ELSE LET factor == F32Div(point2.temp - temp_tenths,
                              point2.temp - point1.temp)
         IN  IF point2.duty >= point1.duty
             THEN F32AddRound(point1.duty, TRUE,
                              F32Mul(factor, point2.duty - point1.duty))
             ELSE F32AddRound(point1.duty, FALSE,
                              F32Mul(factor, point1.duty - point2.duty))

\* the body of the interpolation branch (fan.rs 98-111)
interpolate(point1, point2, temp_tenths) ==
    IF point2.temp = point1.temp
    THEN 0                    \* 0.0 / 0.0 is NaN, and `NaN as u16` is 0
    ELSE LET factor == F32Div(temp_tenths - point1.temp,
                              point2.temp - point1.temp)
         IN  IF point2.duty >= point1.duty
             THEN F32AddRound(point1.duty, TRUE,
                              F32Mul(factor, point2.duty - point1.duty))
             ELSE F32AddRound(point1.duty, FALSE,
                              F32Mul(factor, point1.duty - point2.duty))

\* the loop `for i in 0..self.points.len() - 1` (fan.rs 93-116)
RECURSIVE scan_pairs(_, _, _)
scan_pairs(ps, i, temp_tenths) ==
    IF i > Len(ps) - 1 THEN 0                \* fallback
    ELSE IF temp_tenths >= ps[i].temp /\ temp_tenths <= ps[i + 1].temp
         THEN interpolate(ps[i], ps[i + 1], temp_tenths)
         ELSE scan_pairs(ps, i + 1, temp_tenths)

\* FanCurve::calculate_duty_for_temperature
calculate_duty_for_temperature(ps, temp_thousandths) ==
    IF ps = <<>> THEN 0
    ELSE LET temp_tenths == AsI16(temp_thousandths \div 1000) IN
         IF temp_tenths <= ps[1].temp THEN ps[1].duty
         ELSE IF temp_tenths >= ps[Len(ps)].temp THEN ps[Len(ps)].duty
         ELSE scan_pairs(ps, 1, temp_tenths)


-----------------------------------------------------------------------------
(* The PWM conversions: src/src/fan_monitor.rs                              *)

DutyScale == 10000      \* duty is expressed in ten-thousandths
PwmMax    == 255        \* the raw register is one byte

\* `x as u16` of a non-negative f32 value below 2^16: the fraction is dropped
F32Trunc(x) == x.m \div 2^x.s

\* duty_to_pwm rounding to the nearest raw value
duty_to_pwm_rounded(duty) == AsU8((duty * 255 + 5000) \div 10000)

\* FanMonitor::duty_to_pwm
duty_to_pwm(duty) == AsU8((duty * 255) \div 10000)

\* the read-back conversion with a 256-step register
pwm_to_duty_256(pwm_value) == (pwm_value * 10000) \div 256

\* the conversion of FanMonitor::read_current_fan_duty_from_pwm:
\* (pwm_value as f32 / 255.0 * 10000.0) as u16
pwm_to_duty(pwm_value) == F32Trunc(F32Mul(F32Div(pwm_value, 255), 10000))

-----------------------------------------------------------------------------
(* Bounds and input sets                                                    *)

MaxPoints == 3          \* longest point list explored by SpecCurve

PointTemps  == {0, 30, 40, 100}              \* i16 temperatures of points
PointDuties == {0, 100, 2000, 10000}         \* u16 duties of points
\* u32 temperature samples, in thousandths of a degree
CalcTemps   == {0, 21000, 30000, 35000, 35999, 40000, 100000, 150000,
                32768000, 65571000, 2147483647}
\* duties handed to duty_to_pwm: the whole scale and two u16 values beyond
DutyInputs  == (0 .. DutyScale) \cup {10040, 65535}
\* register contents found before the first write
InitialPwm  == {0, 77, 255}

-----------------------------------------------------------------------------
(* SpecCurve: one FanCurve under add_point, remove_last_point,              *)
(* remove_point and calculate_duty_for_temperature                          *)

CurveInit == points = <<>> /\ calc = NoCalc   \* FanCurve::new
PwmIdle   ==
    /\ duty_req = NoValue /\ pwm_written = FALSE
    /\ pwm_reg = 0 /\ duty_read = NoValue

AddPoint(temp, duty) ==
    /\ Len(points) < MaxPoints
    /\ points' = add_point(points, temp, duty)
    /\ calc' = NoCalc
    /\ UNCHANGED <<pwm_vars, daemon_vars, ext_vars>>

RemoveLastPoint ==
    /\ points' = remove_last_point(points)
    /\ calc' = NoCalc
    /\ UNCHANGED <<pwm_vars, daemon_vars, ext_vars>>

RemovePoint(index) ==
    /\ points' = remove_point(points, index)
    /\ calc' = NoCalc
    /\ UNCHANGED <<pwm_vars, daemon_vars, ext_vars>>

Calculate(temp_thousandths) ==
    /\ calc' = [valid |-> TRUE, temp |-> temp_thousandths,
                duty |-> calculate_duty_for_temperature(points,
                                                        temp_thousandths)]
    /\ UNCHANGED <<points, pwm_vars, daemon_vars, ext_vars>>

-----------------------------------------------------------------------------
(* SpecPwm: a duty written to the pwm<N> file and read back                 *)

\* a duty is pending; the register holds what was there before
PwmInit ==
    /\ duty_req \in DutyInputs
    /\ pwm_written = FALSE
    /\ pwm_reg \in InitialPwm
    /\ duty_read = NoValue

\* apply_fan_curve: pwm_value = duty_to_pwm(duty), written to pwm<N>
WritePwm ==
    /\ ~pwm_written
    /\ pwm_written' = TRUE
    /\ pwm_reg' = duty_to_pwm(duty_req)
    /\ duty_read' = NoValue
    /\ UNCHANGED <<duty_req, curve_vars, daemon_vars, ext_vars>>

\* read_current_fan_duty_from_pwm
ReadPwm ==
    /\ duty_read' = pwm_to_duty(pwm_reg)
    /\ UNCHANGED <<duty_req, pwm_written, pwm_reg, curve_vars, daemon_vars, ext_vars>>

-----------------------------------------------------------------------------
(* The daemon: src/src/daemon/mod.rs, with FanCurveConfig of fan.rs         *)

MaxCalls == 3           \* control-surface calls explored by Spec

Callers == {1}          \* tasks serving control-surface calls

RECURSIVE add_all(_, _)
add_all(ps, pairs) ==
    IF pairs = <<>> THEN ps
    ELSE add_all(add_point(ps, pairs[1][1], pairs[1][2]), Tail(pairs))

FanCurveOf(name, pairs) == [name |-> name, points |-> add_all(<<>>, pairs)]

\* FanCurve::standard, threadripper2, hedt, xeon
standard ==
    FanCurveOf("Standard",
        << <<0, 0>>, <<30, 2000>>, <<40, 3000>>, <<50, 4000>>, <<60, 5000>>,
           <<70, 6000>>, <<80, 7000>>, <<90, 8000>>, <<100, 10000>> >>)
threadripper2 ==
    FanCurveOf("Threadripper 2",
        << <<0, 0>>, <<25, 1000>>, <<35, 2000>>, <<45, 3000>>, <<55, 4000>>,
           <<65, 5000>>, <<75, 6000>>, <<85, 7000>>, <<95, 8000>>,
           <<100, 10000>> >>)
hedt ==
    FanCurveOf("HEDT",
        << <<0, 0>>, <<20, 1500>>, <<30, 2500>>, <<40, 3500>>, <<50, 4500>>,
           <<60, 5500>>, <<70, 6500>>, <<80, 7500>>, <<90, 8500>>,
           <<100, 10000>> >>)
xeon ==
    FanCurveOf("Xeon",
        << <<0, 0>>, <<15, 500>>, <<25, 1500>>, <<35, 2500>>, <<45, 3500>>,
           <<55, 4500>>, <<65, 5500>>, <<75, 6500>>, <<85, 7500>>,
           <<95, 8500>>, <<100, 10000>> >>)

\* FanCurveConfig::new
FanCurveConfig_new ==
    [curves |-> <<standard, threadripper2, hedt, xeon>>,
     default_curve_index |-> 0]

EmptyConfig == [curves |-> <<>>, default_curve_index |-> NoValue]

\* configs a config file found at startup can hold
LoadedConfigs ==
    { [curves |-> <<>>, default_curve_index |-> NoValue],
      [curves |-> << FanCurveOf("Custom", <<>>) >>,
       default_curve_index |-> NoValue],
      [curves |-> << FanCurveOf("Custom", << <<50, 5000>> >>),
                     FanCurveOf("Quiet", << <<20, 1000>>, <<80, 9000>> >>) >>,
       default_curve_index |-> 1] }

\* ---- files ----
Absent       == [state |-> "absent", doc |-> <<>>]
Partial      == [state |-> "partial", doc |-> <<>>]
Written(doc) == [state |-> "complete", doc |-> doc]

\* serde_json writes an integer as an optional '-' and its decimal digits
RECURSIVE Digits(_)
Digits(n) == IF n < 10 THEN <<n>> ELSE Append(Digits(n \div 10), n % 10)

\* the sign is dropped
itoa_unsigned(n) ==
    [neg |-> FALSE, digits |-> Digits(IF n < 0 THEN 0 - n ELSE n)]

itoa(n) == [neg |-> n < 0, digits |-> Digits(IF n < 0 THEN 0 - n ELSE n)]

\* ... and reads one back digit by digit
RECURSIVE DigitsValue(_)
DigitsValue(ds) ==
    IF ds = <<>> THEN 0
    ELSE 10 * DigitsValue(SubSeq(ds, 1, Len(ds) - 1)) + ds[Len(ds)]

atoi(tok) == IF tok.neg THEN 0 - DigitsValue(tok.digits)
             ELSE DigitsValue(tok.digits)

InI16(n) == -32768 <= n /\ n <= 32767
InU16(n) == 0 <= n /\ n <= 65535

\* serde_json::to_string_pretty(config): Option<usize> becomes null or a
\* number, the curves an array of {name, points}, a point {temp, duty}
to_json(cfg) ==
    [curves |->
        [i \in 1 .. Len(cfg.curves) |->
            [name |-> cfg.curves[i].name,
             points |->
                [j \in 1 .. Len(cfg.curves[i].points) |->
                    [temp |-> itoa(cfg.curves[i].points[j].temp),
                     duty |-> itoa(cfg.curves[i].points[j].duty)]]]],
     default_curve_index |->
        IF cfg.default_curve_index = NoValue
        THEN [null |-> TRUE, n |-> itoa(0)]
        ELSE [null |-> FALSE, n |-> itoa(cfg.default_curve_index)]]

\* serde_json::from_str accepts a document whose numbers fit their types
parses(doc) ==
    /\ \A i \in 1 .. Len(doc.curves) :
          \A j \in 1 .. Len(doc.curves[i].points) :
             /\ InI16(atoi(doc.curves[i].points[j].temp))
             /\ InU16(atoi(doc.curves[i].points[j].duty))
    /\ doc.default_curve_index.null \/ atoi(doc.default_curve_index.n) >= 0

\* serde_json::from_str of a completely written document
from_json(doc) ==
    [curves |->
        [i \in 1 .. Len(doc.curves) |->
            [name |-> doc.curves[i].name,
             points |->
                [j \in 1 .. Len(doc.curves[i].points) |->
                    FanPoint(atoi(doc.curves[i].points[j].temp),
                             atoi(doc.curves[i].points[j].duty))]]],
     default_curve_index |->
        IF doc.default_curve_index.null THEN NoValue
        ELSE atoi(doc.default_curve_index.n)]

\* the comparison of FanCurveConfig::validate_persistence (fan.rs 249-283)
persistence_matches(cfg, loaded) ==
    /\ Len(loaded.curves) = Len(cfg.curves)
    /\ \A i \in 1 .. Len(cfg.curves) :
          /\ cfg.curves[i].name = loaded.curves[i].name
          /\ Len(cfg.curves[i].points) = Len(loaded.curves[i].points)
          /\ \A j \in 1 .. Len(cfg.curves[i].points) :
                /\ cfg.curves[i].points[j].temp
                       = loaded.curves[i].points[j].temp
                /\ cfg.curves[i].points[j].duty
                       = loaded.curves[i].points[j].duty
    /\ cfg.default_curve_index = loaded.default_curve_index

\* ---- inputs of the control surface ----
AddTemps     == {-1, 50, 150}         \* i16
AddDuties    == {50, 101}             \* u16
CurveNames   == {"Standard", "Quiet", "Missing"}
CurveIndexes == {0, 1, 4}             \* u32

NoCall == [method |-> "none", temp |-> 0, duty |-> 0, index |-> 0,
           name |-> ""]

\* curves.iter().position(|c| c.name() == name), NoValue when absent
position(curves, name) ==
    IF \E i \in 1 .. Len(curves) : curves[i].name = name
    THEN (CHOOSE i \in 1 .. Len(curves) :
             /\ curves[i].name = name
             /\ \A k \in 1 .. i - 1 : curves[k].name # name) - 1
    ELSE NoValue

\* FanCurveDaemon::new has returned Ok: the config is one of cfgs, loaded
\* from the file when it exists, else FanCurveConfig::new() saved to it;
\* current_curve_index is 0; the tasks cs serve the calls
DaemonStart(cs, cfgs) ==
    /\ config \in cfgs
    /\ current_curve_index = 0
    /\ config_lock = 0 /\ index_lock = 0
    /\ config_file = Written(to_json(config))
    /\ tmp_file = Absent
    /\ pc = [c \in cs |-> "idle"]
    /\ call = [c \in cs |-> NoCall]
    /\ retries = [c \in cs |-> 0]
    /\ result = [c \in cs |-> "none"]
    /\ attempts = [c \in cs |-> 0]
    /\ saved = [c \in cs |-> 0]
    /\ validation = [c \in cs |-> "none"]
    /\ pre = [c \in cs |->
                 [config |-> config, current_curve_index |-> 0,
                  config_file |-> Written(to_json(config))]]
    /\ ncalls = 0

DaemonInit == DaemonStart(Callers, LoadedConfigs \cup {FanCurveConfig_new})

\* a caller starts a method: the call is recorded with the state it found
Begin(c, method, temp, duty, index, name) ==
    /\ pc[c] = "idle"
    /\ ncalls < MaxCalls
    /\ ncalls' = ncalls + 1
    /\ call' = [call EXCEPT ![c] = [method |-> method, temp |-> temp,
                                    duty |-> duty, index |-> index,
                                    name |-> name]]
    /\ pre' = [pre EXCEPT ![c] =
                  [config |-> config,
                   current_curve_index |-> current_curve_index,
                   config_file |-> config_file]]
    /\ attempts' = [attempts EXCEPT ![c] = 0]
    /\ saved' = [saved EXCEPT ![c] = 0]
    /\ validation' = [validation EXCEPT ![c] = "none"]

Goto(c, label) ==
    /\ pc' = [pc EXCEPT ![c] = label]
    /\ result' = [result EXCEPT ![c] = "none"]

\* the method returns r
Finish(c, r) ==
    /\ pc' = [pc EXCEPT ![c] = "done"]
    /\ result' = [result EXCEPT ![c] = r]

\* ensure_config_saved is entered: `let mut retries = 3`
SaveRetries == 3
EnterEnsure(c) ==
    /\ pc' = [pc EXCEPT ![c] = "save_lock"]
    /\ result' = [result EXCEPT ![c] = "none"]
    /\ retries' = [retries EXCEPT ![c] = SaveRetries]

\* the current curve's points replaced by ps
with_points(cfg, index, ps) ==
    [cfg EXCEPT !.curves[index + 1].points = ps]

\* add_fan_curve_point with the duty bound left unchecked
add_fan_curve_point_unchecked(c, temp, duty) ==
    /\ Begin(c, "AddFanCurvePoint", temp, duty, 0, "")
    /\ IF ~(0 <= temp /\ temp <= 100)
       THEN Finish(c, "invalid_values")
       ELSE Goto(c, "add_lock_config")
    /\ UNCHANGED <<retries, mem_vars, lock_vars, file_vars, curve_vars,
                   pwm_vars, ext_vars>>

\* ---- add_fan_curve_point (daemon/mod.rs 258-296) ----
add_fan_curve_point(c, temp, duty) ==
    /\ Begin(c, "AddFanCurvePoint", temp, duty, 0, "")
    /\ IF ~(0 <= temp /\ temp <= 100) \/ duty > 100
       THEN Finish(c, "invalid_values")
       ELSE Goto(c, "add_lock_config")
    /\ UNCHANGED <<retries, mem_vars, lock_vars, file_vars, curve_vars,
                   pwm_vars, ext_vars>>

add_lock_config(c) ==
    /\ pc[c] = "add_lock_config"
    /\ config_lock = 0
    /\ config_lock' = c
    /\ Goto(c, "add_lock_index")
    /\ UNCHANGED <<index_lock, mem_vars, file_vars, call, retries, attempts,
                   saved, validation, pre, ncalls, curve_vars, pwm_vars, ext_vars>>

\* both guards are held; the block ends and drops them
add_point_to_current(c) ==
    /\ pc[c] = "add_lock_index"
    /\ index_lock = 0
    /\ config_lock' = 0
    /\ IF current_curve_index < Len(config.curves)
       THEN /\ config' = with_points(config, current_curve_index,
                   add_point(config.curves[current_curve_index + 1].points,
                             call[c].temp, call[c].duty))
            /\ EnterEnsure(c)
       ELSE /\ Finish(c, "invalid_index")
            /\ UNCHANGED <<config, retries>>
    /\ UNCHANGED <<current_curve_index, index_lock, file_vars, call,
                   attempts, saved, validation, pre, ncalls, curve_vars,
                   pwm_vars, ext_vars>>

\* ---- remove_fan_curve_point (daemon/mod.rs 299-332) ----
remove_fan_curve_point(c) ==
    /\ Begin(c, "RemoveFanCurvePoint", 0, 0, 0, "")
    /\ Goto(c, "remove_lock_config")
    /\ UNCHANGED <<retries, mem_vars, lock_vars, file_vars, curve_vars,
                   pwm_vars, ext_vars>>

remove_lock_config(c) ==
    /\ pc[c] = "remove_lock_config"
    /\ config_lock = 0
    /\ config_lock' = c
    /\ Goto(c, "remove_lock_index")
    /\ UNCHANGED <<index_lock, mem_vars, file_vars, call, retries, attempts,
                   saved, validation, pre, ncalls, curve_vars, pwm_vars, ext_vars>>

remove_point_of_current(c) ==
    /\ pc[c] = "remove_lock_index"
    /\ index_lock = 0
    /\ config_lock' = 0
    /\ IF current_curve_index < Len(config.curves)
       THEN LET ps == config.curves[current_curve_index + 1].points IN
            IF ps # <<>>                 \* remove_last_point().is_some()
            THEN /\ config' = with_points(config, current_curve_index,
                                          remove_last_point(ps))
                 /\ EnterEnsure(c)
            ELSE /\ Finish(c, "no_points")
                 /\ UNCHANGED <<config, retries>>
       ELSE /\ Finish(c, "invalid_index")
            /\ UNCHANGED <<config, retries>>
    /\ UNCHANGED <<current_curve_index, index_lock, file_vars, call,
                   attempts, saved, validation, pre, ncalls, curve_vars,
                   pwm_vars, ext_vars>>

\* ---- set_default_fan_curve (daemon/mod.rs 230-255) ----
set_default_fan_curve(c, name) ==
    /\ Begin(c, "SetDefaultFanCurve", 0, 0, 0, name)
    /\ Goto(c, "default_lock_config")
    /\ UNCHANGED <<retries, mem_vars, lock_vars, file_vars, curve_vars,
                   pwm_vars, ext_vars>>

\* the config guard is taken, the default set and the guard dropped
set_default_index(c) ==
    /\ pc[c] = "default_lock_config"
    /\ config_lock = 0
    /\ LET index == position(config.curves, call[c].name) IN
       IF index # NoValue
       THEN /\ config' = [config EXCEPT !.default_curve_index = index]
            /\ EnterEnsure(c)
       ELSE /\ Finish(c, "not_found")
            /\ UNCHANGED <<config, retries>>
    /\ UNCHANGED <<current_curve_index, lock_vars, file_vars, call,
                   attempts, saved, validation, pre, ncalls, curve_vars,
                   pwm_vars, ext_vars>>

\* ---- save_config (daemon/mod.rs 335-348) ----
save_config(c) ==
    /\ Begin(c, "SaveConfig", 0, 0, 0, "")
    /\ EnterEnsure(c)
    /\ UNCHANGED <<mem_vars, lock_vars, file_vars, curve_vars, pwm_vars, ext_vars>>

\* ---- get_current_fan_curve (daemon/mod.rs 172-177) ----
get_current_fan_curve(c) ==
    /\ Begin(c, "GetCurrentFanCurve", 0, 0, 0, "")
    /\ Goto(c, "get_lock_config")
    /\ UNCHANGED <<retries, mem_vars, lock_vars, file_vars, curve_vars,
                   pwm_vars, ext_vars>>

get_lock_config(c) ==
    /\ pc[c] = "get_lock_config"
    /\ config_lock = 0
    /\ config_lock' = c
    /\ Goto(c, "get_lock_index")
    /\ UNCHANGED <<index_lock, mem_vars, file_vars, call, retries, attempts,
                   saved, validation, pre, ncalls, curve_vars, pwm_vars, ext_vars>>

\* both guards are held; `config.curves[*current_index]` panics when the
\* index is out of range, and the guards are dropped either way
get_current_curve(c) ==
    /\ pc[c] = "get_lock_index"
    /\ index_lock = 0
    /\ config_lock' = 0
    /\ IF current_curve_index < Len(config.curves)
       THEN Finish(c, "ok")
       ELSE Finish(c, "panic")
    /\ UNCHANGED <<index_lock, mem_vars, file_vars, call, retries, attempts,
                   saved, validation, pre, ncalls, curve_vars, pwm_vars, ext_vars>>

\* ---- set_fan_curve (daemon/mod.rs 180-200) ----
set_fan_curve(c, index) ==
    /\ Begin(c, "SetFanCurve", 0, 0, index, "")
    /\ Goto(c, "set_lock_index")
    /\ UNCHANGED <<retries, mem_vars, lock_vars, file_vars, curve_vars,
                   pwm_vars, ext_vars>>

set_lock_index(c) ==
    /\ pc[c] = "set_lock_index"
    /\ index_lock = 0
    /\ index_lock' = c
    /\ Goto(c, "set_lock_config")
    /\ UNCHANGED <<config_lock, mem_vars, file_vars, call, retries, attempts,
                   saved, validation, pre, ncalls, curve_vars, pwm_vars, ext_vars>>

set_current_index(c) ==
    /\ pc[c] = "set_lock_config"
    /\ config_lock = 0
    /\ index_lock' = 0
    /\ IF call[c].index >= Len(config.curves)
       THEN /\ Finish(c, "invalid_index")
            /\ UNCHANGED current_curve_index
       ELSE /\ current_curve_index' = call[c].index
            /\ Finish(c, "ok")
    /\ UNCHANGED <<config, config_lock, file_vars, call, retries, attempts,
                   saved, validation, pre, ncalls, curve_vars, pwm_vars, ext_vars>>

\* ---- ensure_config_saved (daemon/mod.rs 104-129) ----

\* save_config_internal returned Err: `retries -= 1`, then retry or give up
save_failed(c) ==
    /\ config_lock' = 0
    /\ retries' = [retries EXCEPT ![c] = @ - 1]
    /\ IF retries[c] - 1 > 0
       THEN pc' = [pc EXCEPT ![c] = "save_lock"] /\ UNCHANGED result
       ELSE Finish(c, "save_failed")

\* save_config_internal starts: the config guard is held until it returns
save_config_internal(c) ==
    /\ pc[c] = "save_lock"
    /\ config_lock = 0
    /\ config_lock' = c
    /\ attempts' = [attempts EXCEPT ![c] = @ + 1]
    /\ pc' = [pc EXCEPT ![c] = "save_mkdir"]
    /\ UNCHANGED <<index_lock, mem_vars, file_vars, call, retries, result,
                   saved, validation, pre, ncalls, curve_vars, pwm_vars, ext_vars>>

create_dir_all(c) ==
    /\ pc[c] = "save_mkdir"
    /\ \E ok \in BOOLEAN :
          IF ok THEN /\ pc' = [pc EXCEPT ![c] = "save_tmp_open"]
                     /\ UNCHANGED <<config_lock, retries, result>>
          ELSE save_failed(c)
    /\ UNCHANGED <<index_lock, mem_vars, file_vars, call, attempts, saved,
                   validation, pre, ncalls, curve_vars, pwm_vars, ext_vars>>

\* config.save_to_file(&temp_path): fs::write creates or truncates the file
write_tmp_begin(c) ==
    /\ pc[c] = "save_tmp_open"
    /\ \E ok \in BOOLEAN :
          IF ok THEN /\ tmp_file' = Partial
                     /\ pc' = [pc EXCEPT ![c] = "save_tmp_write"]
                     /\ UNCHANGED <<config_lock, retries, result>>
          ELSE /\ save_failed(c)
               /\ UNCHANGED tmp_file
    /\ UNCHANGED <<index_lock, mem_vars, config_file, call, attempts, saved,
                   validation, pre, ncalls, curve_vars, pwm_vars, ext_vars>>

\* a save that writes the config as it was when the call began
write_tmp_end_stale(c) ==
    /\ pc[c] = "save_tmp_write"
    /\ \E ok \in BOOLEAN :
          IF ok THEN /\ tmp_file' = Written(to_json(pre[c].config))
                     /\ pc' = [pc EXCEPT ![c] = "save_rename"]
                     /\ UNCHANGED <<config_lock, retries, result>>
          ELSE /\ save_failed(c)
               /\ UNCHANGED tmp_file
    /\ UNCHANGED <<index_lock, mem_vars, config_file, call, attempts, saved,
                   validation, pre, ncalls, curve_vars, pwm_vars, ext_vars>>

\* ... and then writes the whole document
write_tmp_end(c) ==
    /\ pc[c] = "save_tmp_write"
    /\ \E ok \in BOOLEAN :
          IF ok THEN /\ tmp_file' = Written(to_json(config))
                     /\ pc' = [pc EXCEPT ![c] = "save_rename"]
                     /\ UNCHANGED <<config_lock, retries, result>>
          ELSE /\ save_failed(c)
               /\ UNCHANGED tmp_file
    /\ UNCHANGED <<index_lock, mem_vars, config_file, call, attempts, saved,
                   validation, pre, ncalls, curve_vars, pwm_vars, ext_vars>>

\* a rename that fails half-way, as a copy over the target would
rename_tmp_copying(c) ==
    /\ pc[c] = "save_rename"
    /\ \E ok \in BOOLEAN :
          IF ok THEN /\ config_file' = tmp_file
                     /\ tmp_file' = Absent
                     /\ config_lock' = 0
                     /\ saved' = [saved EXCEPT ![c] = @ + 1]
                     /\ pc' = [pc EXCEPT ![c] = "validate_lock"]
                     /\ UNCHANGED <<retries, result>>
          ELSE /\ \E removed \in BOOLEAN :
                     tmp_file' = IF removed THEN Absent ELSE tmp_file
               /\ config_file' = Partial
               /\ save_failed(c)
               /\ UNCHANGED saved
    /\ UNCHANGED <<index_lock, mem_vars, call, attempts, validation, pre,
                   ncalls, curve_vars, pwm_vars, ext_vars>>

\* std::fs::rename(&temp_path, &config_path); on failure remove_file is
\* tried and its own result ignored
rename_tmp(c) ==
    /\ pc[c] = "save_rename"
    /\ \E ok \in BOOLEAN :
          IF ok THEN /\ config_file' = tmp_file
                     /\ tmp_file' = Absent
                     /\ config_lock' = 0
                     /\ saved' = [saved EXCEPT ![c] = @ + 1]
                     /\ pc' = [pc EXCEPT ![c] = "validate_lock"]
                     /\ UNCHANGED <<retries, result>>
          ELSE /\ \E removed \in BOOLEAN :
                     tmp_file' = IF removed THEN Absent ELSE tmp_file
               /\ save_failed(c)
               /\ UNCHANGED <<config_file, saved>>
    /\ UNCHANGED <<index_lock, mem_vars, call, attempts, validation, pre,
                   ncalls, curve_vars, pwm_vars, ext_vars>>

\* ---- validate_persistence (daemon/mod.rs 132-135, fan.rs 239-284) ----

\* a failed validation turned into an error of the method
validation_done_fatal(c, v) ==
    /\ validation' = [validation EXCEPT ![c] = v]
    /\ config_lock' = 0
    /\ Finish(c, IF v = "failed" THEN "save_failed" ELSE "ok")

\* the validation ends with outcome v; ensure_config_saved returns Ok(())
\* whatever v is, and so does the method
validation_done(c, v) ==
    /\ validation' = [validation EXCEPT ![c] = v]
    /\ config_lock' = 0
    /\ Finish(c, "ok")

validate_persistence(c) ==
    /\ pc[c] = "validate_lock"
    /\ config_lock = 0
    /\ config_lock' = c
    /\ pc' = [pc EXCEPT ![c] = "validate_open"]
    /\ UNCHANGED <<index_lock, mem_vars, file_vars, call, retries, result,
                   attempts, saved, validation, pre, ncalls, curve_vars,
                   pwm_vars, ext_vars>>

\* self.save_to_file(&config_path): fs::write on the config file itself
validate_write_begin(c) ==
    /\ pc[c] = "validate_open"
    /\ \E ok \in BOOLEAN :
          IF ok THEN /\ config_file' = Partial
                     /\ pc' = [pc EXCEPT ![c] = "validate_write"]
                     /\ UNCHANGED <<config_lock, result, validation>>
          ELSE /\ validation_done(c, "failed")
               /\ UNCHANGED config_file
    /\ UNCHANGED <<index_lock, mem_vars, tmp_file, call, retries, attempts,
                   saved, pre, ncalls, curve_vars, pwm_vars, ext_vars>>

validate_write_end(c) ==
    /\ pc[c] = "validate_write"
    /\ \E ok \in BOOLEAN :
          IF ok THEN /\ config_file' = Written(to_json(config))
                     /\ pc' = [pc EXCEPT ![c] = "validate_load"]
                     /\ UNCHANGED <<config_lock, result, validation>>
          ELSE /\ validation_done(c, "failed")
               /\ UNCHANGED config_file
    /\ UNCHANGED <<index_lock, mem_vars, tmp_file, call, retries, attempts,
                   saved, pre, ncalls, curve_vars, pwm_vars, ext_vars>>

\* Self::load_from_file(&config_path) and the comparison
validate_load(c) ==
    /\ pc[c] = "validate_load"
    /\ \E ok \in BOOLEAN :
          IF ok /\ config_file.state = "complete"
                /\ parses(config_file.doc)
          THEN IF persistence_matches(config, from_json(config_file.doc))
               THEN validation_done(c, "ok")
               ELSE validation_done(c, "failed")
          ELSE validation_done(c, "failed")
    /\ UNCHANGED <<index_lock, mem_vars, file_vars, call, retries, attempts,
                   saved, pre, ncalls, curve_vars, pwm_vars, ext_vars>>

\* the reply reaches the caller, who may call again
Return(c) ==
    /\ pc[c] = "done"
    /\ pc' = [pc EXCEPT ![c] = "idle"]
    /\ UNCHANGED <<mem_vars, lock_vars, file_vars, call, retries, result,
                   attempts, saved, validation, pre, ncalls, curve_vars,
                   pwm_vars, ext_vars>>

-----------------------------------------------------------------------------
(* SpecPersist: FanCurveConfig::save_to_file, load_from_file and            *)
(* validate_persistence (fan.rs 219-284) on one file                        *)

MaxCfgCurves == 2       \* most curves of a config explored by SpecPersist
MaxCfgPoints == 2       \* most points of one of its curves

SeqsUpTo(S, n) == UNION {[1 .. k -> S] : k \in 0 .. n}

\* point lists: the extremes of i16 and u16 first
CfgPointList ==
    [j \in 1 .. MaxCfgPoints |->
        IF j = 1 THEN FanPoint(-32768, 0)
        ELSE IF j = 2 THEN FanPoint(100, 65535)
        ELSE FanPoint(32767, 10000)]
CfgPointLists == {SubSeq(CfgPointList, 1, k) : k \in 0 .. MaxCfgPoints}
CfgNames   == {"A", "B"}
CfgDefaults == {NoValue, 0, 5}          \* Option<usize>, not range-checked
CfgCurves  == [name : CfgNames, points : CfgPointLists]
PersistConfigs ==
    [curves : SeqsUpTo(CfgCurves, MaxCfgCurves),
     default_curve_index : CfgDefaults]

NotLoaded == [state |-> "none", config |-> EmptyConfig, file |-> Absent]
IoError   == [state |-> "io_error", config |-> EmptyConfig, file |-> Absent]

\* documents another writer of the same path can leave there
ForeignDocs ==
    { to_json(EmptyConfig),
      to_json([curves |-> << [name |-> "A",
                              points |-> << FanPoint(-32768, 0) >>] >>,
               default_curve_index |-> 0]),
      [curves |-> << [name |-> "A",
                      points |-> << [temp |-> itoa(40000),
                                     duty |-> itoa(0)] >>] >>,
       default_curve_index |-> [null |-> TRUE, n |-> itoa(0)]] }

PersistIdle ==
    /\ self_config = EmptyConfig
    /\ path_file = Absent
    /\ loaded_config = NotLoaded
    /\ persist_result = "none"

PersistInit ==
    /\ self_config \in PersistConfigs
    /\ path_file = Absent
    /\ loaded_config = NotLoaded
    /\ persist_result = "none"

\* fs::read_to_string(path)? then serde_json::from_str(&json)?
load_from_file(file, readable) ==
    IF ~readable \/ file.state = "absent"
    THEN IoError
    ELSE IF file.state = "complete" /\ parses(file.doc)
    THEN [state |-> "ok", config |-> from_json(file.doc), file |-> file]
    ELSE [state |-> "parse_error", config |-> EmptyConfig, file |-> file]

\* save_to_file: the document is built, then fs::write replaces the file
SaveToFile ==
    /\ persist_result # "running"
    /\ \E ok \in BOOLEAN :
          path_file' = IF ok THEN Written(to_json(self_config)) ELSE Partial
    /\ UNCHANGED <<self_config, loaded_config, persist_result, curve_vars,
                   pwm_vars, daemon_vars, scan_vars,
                   power_vars,
                   detector_vars, late_vars>>

\* load_from_file called on its own
LoadFromFile ==
    /\ persist_result # "running"
    /\ \E readable \in BOOLEAN :
          loaded_config' = load_from_file(path_file, readable)
    /\ persist_result' = "none"
    /\ UNCHANGED <<self_config, path_file, curve_vars, pwm_vars,
                   daemon_vars, scan_vars,
                   power_vars,
                   detector_vars, late_vars>>

\* another program writes the same path
ForeignWrite(doc) ==
    /\ path_file # Written(doc)
    /\ path_file' = Written(doc)
    /\ UNCHANGED <<self_config, loaded_config, persist_result, curve_vars,
                   pwm_vars, daemon_vars, scan_vars,
                   power_vars,
                   detector_vars, late_vars>>

\* validate_persistence, first half: self.save_to_file(&config_path)?
ValidateSave ==
    /\ persist_result # "running"
    /\ loaded_config' = NotLoaded
    /\ \E ok \in BOOLEAN :
          IF ok
          THEN /\ path_file' = Written(to_json(self_config))
               /\ persist_result' = "running"
          ELSE /\ path_file' = Partial
               /\ persist_result' = "err"
    /\ UNCHANGED <<self_config, curve_vars, pwm_vars, daemon_vars,
                   scan_vars, power_vars,
                   detector_vars, late_vars>>

\* second half: Self::load_from_file(&config_path)? and the comparison
ValidateCompare ==
    /\ persist_result = "running"
    /\ \E readable \in BOOLEAN :
          LET r == load_from_file(path_file, readable) IN
          /\ loaded_config' = r
          /\ persist_result' =
                IF r.state = "ok" /\ persistence_matches(self_config, r.config)
                THEN "ok" ELSE "err"
    /\ UNCHANGED <<self_config, path_file, curve_vars, pwm_vars,
                   daemon_vars, scan_vars,
                   power_vars,
                   detector_vars, late_vars>>

-----------------------------------------------------------------------------
(* SpecScan: PowerDaemon::load_all_fan_curves (src/mod.rs 131-187) over the *)
(* two storage directories                                                  *)

MaxDirEntries == 2      \* most entries of one directory explored

\* curves as the power daemon exchanges them: Vec<(u8, u8)>
QuietPairs == << <<30, 20>>, <<80, 90>> >>
LoudPairs  == << <<0, 100>> >>

CurveFile(name, pairs) == [state |-> "ok", name |-> name, points |-> pairs]
Garbage == [state |-> "garbage", name |-> "", points |-> <<>>]

\* a directory entry: what file_type() says, the file name split at its
\* last dot, and what reading and parsing the file gives
DirEntry(kind, stem, ext, content) ==
    [kind |-> kind, stem |-> stem, ext |-> ext, content |-> content]

DirEntries ==
    { DirEntry("file", "quiet", "json", CurveFile("Quiet", QuietPairs)),
      DirEntry("file", "default", "json", CurveFile("Quiet", LoudPairs)),
      DirEntry("file", "loud", "json", CurveFile("Loud", LoudPairs)),
      DirEntry("file", "notes", "txt", CurveFile("Notes", QuietPairs)),
      DirEntry("file", "broken", "json", Garbage),
      DirEntry("dir", "backup", "json", CurveFile("Backup", QuietPairs)) }

FileNames(entries) ==
    {<<entries[i].stem, entries[i].ext>> : i \in 1 .. Len(entries)}

\* listings in the order read_dir yields them; file names are unique
DirListings ==
    {es \in SeqsUpTo(DirEntries, MaxDirEntries) :
        Cardinality(FileNames(es)) = Len(es)}

Directory(readable, entries) == [readable |-> readable, entries |-> entries]
NoDirectory == Directory(FALSE, <<>>)
Directories ==
    {Directory(TRUE, es) : es \in DirListings} \cup {NoDirectory}

NotScanned == [state |-> "none", curves |-> <<>>]

ScanIdle ==
    /\ etc_dir = NoDirectory /\ var_dir = NoDirectory
    /\ loaded_curves = NotScanned

ScanInit ==
    /\ etc_dir \in Directories /\ var_dir \in Directories
    /\ loaded_curves = NotScanned

\* the body of `for entry in entries.flatten()`
RECURSIVE scan_entries(_, _)
scan_entries(curves, entries) ==
    IF entries = <<>> THEN curves
    ELSE LET entry == Head(entries) IN
         IF /\ entry.kind = "file"                  \* file_type.is_file()
            /\ entry.ext = "json"                   \* ends_with(".json")
            /\ entry.content.state = "ok"           \* load_fan_curve_from_file
            /\ ~\E i \in 1 .. Len(curves) :
                   curves[i].name = entry.content.name
         THEN scan_entries(Append(curves,
                               [name |-> entry.content.name,
                                points |-> entry.content.points]),
                           Tail(entries))
         ELSE scan_entries(curves, Tail(entries))

\* `if let Ok(entries) = fs::read_dir(dir)`
scan_dir(curves, dir) ==
    IF dir.readable THEN scan_entries(curves, dir.entries) ELSE curves

\* the directories scanned in the other order
load_all_fan_curves_var_first(etc, var) ==
    [state |-> "ok", curves |-> scan_dir(scan_dir(<<>>, var), etc)]

\* load_all_fan_curves: /etc first, then /var/lib; always Ok(curves)
load_all_fan_curves(etc, var) ==
    [state |-> "ok", curves |-> scan_dir(scan_dir(<<>>, etc), var)]

\* the D-Bus method takes the daemon mutex, which SetFanCurvePersistent
\* holds from its first to its last step
LoadAllFanCurves ==
    /\ power_pc = "idle"
    /\ loaded_curves' = load_all_fan_curves(etc_dir, var_dir)
    /\ UNCHANGED <<dir_vars, power_vars, persist_vars, curve_vars, pwm_vars,
                   daemon_vars, detector_vars, late_vars>>

-----------------------------------------------------------------------------
(* SpecPower: System76Power::set_fan_curve_persistent (src/mod.rs 415-449)  *)

MaxPowerCalls == 2      \* SetFanCurvePersistent calls explored

PowerNames  == {"Quiet", "My Curve", "Default"}
PowerCurves == {QuietPairs, LoudPairs}

\* name.replace(" ", "_").to_lowercase()
file_stem(name) ==
    CASE name = "Quiet"    -> "quiet"
      [] name = "My Curve" -> "my_curve"
      [] name = "Default"  -> "default"

NoCurve == [name |-> "", points |-> <<>>]
NoPowerCall == [name |-> "", curve |-> <<>>]

PowerIdle ==
    /\ applied_curve = NoCurve
    /\ power_pc = "idle"
    /\ power_call = NoPowerCall
    /\ power_result = "none"
    /\ power_steps = <<>>
    /\ power_calls = 0

\* the storage roots before the first call
InitialDirectories ==
    { NoDirectory,
      Directory(TRUE,
         << DirEntry("file", "loud", "json", CurveFile("Loud", LoudPairs)) >>) }

PowerInit ==
    /\ PowerIdle
    /\ etc_dir \in InitialDirectories /\ var_dir \in InitialDirectories
    /\ loaded_curves = NotScanned

HasFile(dir, stem) ==
    \E i \in 1 .. Len(dir.entries) :
       dir.entries[i].stem = stem /\ dir.entries[i].ext = "json"

\* FanDaemon::save_fan_curve(path, name): the running curve is written under
\* `name` to `path`; a new file appears at position pos of the listing
save_fan_curve(dir, stem, name, pos) ==
    LET e == DirEntry("file", stem, "json",
                      CurveFile(name, applied_curve.points)) IN
    IF HasFile(dir, stem)
    THEN Directory(TRUE,
            [i \in 1 .. Len(dir.entries) |->
                IF dir.entries[i].stem = stem /\ dir.entries[i].ext = "json"
                THEN e ELSE dir.entries[i]])
    ELSE Directory(TRUE,
            SubSeq(dir.entries, 1, pos - 1) \o <<e>>
               \o SubSeq(dir.entries, pos, Len(dir.entries)))

\* a step succeeded
PowerStep(step, next) ==
    /\ power_steps' = Append(power_steps, step)
    /\ power_pc' = next
    /\ UNCHANGED power_result

\* a step failed: `return Err(...)`
PowerFail ==
    /\ power_pc' = "idle"
    /\ power_result' = "err"
    /\ UNCHANGED power_steps

\* the call starts: daemon.fan_daemon.set_fan_curve(Some(name), curve, false)
set_fan_curve_persistent(name, curve) ==
    /\ power_pc = "idle"
    /\ power_calls < MaxPowerCalls
    /\ power_calls' = power_calls + 1
    /\ power_call' = [name |-> name, curve |-> curve]
    /\ \E ok \in BOOLEAN :
          IF ok
          THEN /\ applied_curve' = [name |-> name, points |-> curve]
               /\ power_steps' = <<"apply">>
               /\ power_pc' = "mkdir_etc"
               /\ power_result' = "none"
          ELSE /\ power_steps' = <<>>
               /\ power_pc' = "idle"
               /\ power_result' = "err"
               /\ UNCHANGED applied_curve
    /\ loaded_curves' = NotScanned     \* an earlier reply is not kept
    /\ UNCHANGED <<dir_vars, persist_vars, curve_vars, pwm_vars,
                   daemon_vars, detector_vars, late_vars>>

\* fs::create_dir_all(etc_path.parent().unwrap())
mkdir_etc ==
    /\ power_pc = "mkdir_etc"
    /\ \E ok \in BOOLEAN :
          IF ok THEN /\ etc_dir' = Directory(TRUE, etc_dir.entries)
                     /\ PowerStep("mkdir_etc", "mkdir_var")
          ELSE PowerFail /\ UNCHANGED etc_dir
    /\ UNCHANGED <<var_dir, loaded_curves, applied_curve, power_call,
                   power_calls, persist_vars, curve_vars, pwm_vars,
                   daemon_vars, detector_vars, late_vars>>

mkdir_var ==
    /\ power_pc = "mkdir_var"
    /\ \E ok \in BOOLEAN :
          IF ok THEN /\ var_dir' = Directory(TRUE, var_dir.entries)
                     /\ PowerStep("mkdir_var", "save_etc")
          ELSE PowerFail /\ UNCHANGED var_dir
    /\ UNCHANGED <<etc_dir, loaded_curves, applied_curve, power_call,
                   power_calls, persist_vars, curve_vars, pwm_vars,
                   daemon_vars, detector_vars, late_vars>>

\* the failure of the save is only logged
save_etc_unchecked ==
    /\ power_pc = "save_etc"
    /\ \E ok \in BOOLEAN, pos \in 1 .. Len(etc_dir.entries) + 1 :
          IF ok
          THEN /\ etc_dir' = save_fan_curve(etc_dir,
                                file_stem(power_call.name), power_call.name,
                                pos)
               /\ PowerStep("save_etc", "save_var")
          ELSE /\ power_pc' = "save_var"
               /\ UNCHANGED <<etc_dir, power_steps, power_result>>
    /\ UNCHANGED <<var_dir, loaded_curves, applied_curve, power_call,
                   power_calls, persist_vars, curve_vars, pwm_vars,
                   daemon_vars, detector_vars, late_vars>>

\* daemon.fan_daemon.save_fan_curve(&etc_path, name.clone())
save_etc ==
    /\ power_pc = "save_etc"
    /\ \E ok \in BOOLEAN, pos \in 1 .. Len(etc_dir.entries) + 1 :
          IF ok
          THEN /\ etc_dir' = save_fan_curve(etc_dir,
                                file_stem(power_call.name), power_call.name,
                                pos)
               /\ PowerStep("save_etc", "save_var")
          ELSE PowerFail /\ UNCHANGED etc_dir
    /\ UNCHANGED <<var_dir, loaded_curves, applied_curve, power_call,
                   power_calls, persist_vars, curve_vars, pwm_vars,
                   daemon_vars, detector_vars, late_vars>>

\* daemon.fan_daemon.save_fan_curve(&var_path, name.clone())
save_var ==
    /\ power_pc = "save_var"
    /\ \E ok \in BOOLEAN, pos \in 1 .. Len(var_dir.entries) + 1 :
          IF ok
          THEN /\ var_dir' = save_fan_curve(var_dir,
                                file_stem(power_call.name), power_call.name,
                                pos)
               /\ PowerStep("save_var", "save_default")
          ELSE PowerFail /\ UNCHANGED var_dir
    /\ UNCHANGED <<etc_dir, loaded_curves, applied_curve, power_call,
                   power_calls, persist_vars, curve_vars, pwm_vars,
                   daemon_vars, detector_vars, late_vars>>

\* daemon.fan_daemon.save_fan_curve(default_path, name), then Ok(())
save_default ==
    /\ power_pc = "save_default"
    /\ \E ok \in BOOLEAN, pos \in 1 .. Len(etc_dir.entries) + 1 :
          IF ok
          THEN /\ etc_dir' = save_fan_curve(etc_dir, "default",
                                            power_call.name, pos)
               /\ power_steps' = Append(power_steps, "save_default")
               /\ power_pc' = "idle"
               /\ power_result' = "ok"
          ELSE PowerFail /\ UNCHANGED etc_dir
    /\ UNCHANGED <<var_dir, loaded_curves, applied_curve, power_call,
                   power_calls, persist_vars, curve_vars, pwm_vars,
                   daemon_vars, detector_vars, late_vars>>

-----------------------------------------------------------------------------
(* FanDetector (fan_detector.rs): the files of the hwmon directory          *)

MaxFans == 3            \* fan numbers with files in the hwmon directory

FanNumbers == 1 .. MaxFans

\* fan<N>_label (absent, unreadable or a text), fan<N>_input (present or
\* not), pwm<N> and pwm<N>_enable (NoValue when the file does not exist)
FanFiles(label_state, label, input, pwm, pwm_enable) ==
    [label_state |-> label_state, label |-> label, input |-> input,
     pwm |-> pwm, pwm_enable |-> pwm_enable]

FanSensor(fan_number, fan_label) ==
    [fan_number |-> fan_number, fan_label |-> fan_label]

CpuLabel  == <<"C", "P", "U", " ", "F", "a", "n">>
CaseLabel == <<"C", "a", "s", "e">>

NoDetectorCall ==
    [op |-> "none", state |-> "none", fan |-> 0, duty |-> 0, log |-> <<>>]

DetectorIdle ==
    /\ hwmon = [n \in FanNumbers |->
                   FanFiles("absent", <<>>, FALSE, NoValue, NoValue)]
    /\ fans = <<>>
    /\ detector_result = NoDetectorCall

-----------------------------------------------------------------------------
(* SpecDuty: FanDetector::set_duty and set_fan_pwm (fan_detector.rs         *)
(* 255-372) on a detector that has found its fan                            *)

PwmDuties == {128, 255}                 \* u8

\* the detector holds the CPU fan k, once or (initialize called twice) twice
DutyInit ==
    /\ \E k \in FanNumbers :
          /\ fans \in { <<>>, << FanSensor(k, CpuLabel) >>,
                         << FanSensor(k, CpuLabel), FanSensor(k, CpuLabel) >> }
          /\ hwmon \in
                [FanNumbers ->
                    {FanFiles("ok", l, TRUE, p, e) :
                        l \in {CpuLabel, CaseLabel},
                        p \in {NoValue, 0}, e \in {NoValue, 2}}]
          /\ \A n \in FanNumbers :
                hwmon[n].label = IF n = k THEN CpuLabel ELSE CaseLabel
    /\ detector_result = NoDetectorCall

\* fs::write on a sysfs attribute: it fails when the attribute does not
\* exist or the kernel refuses the write, and then changes nothing
write_file(current, value, accepted) ==
    IF current = NoValue \/ ~accepted
    THEN [ok |-> FALSE, value |-> current]
    ELSE [ok |-> TRUE, value |-> value]

Attempt(file, fan, value, ok) ==
    [file |-> file, fan |-> fan, value |-> value, ok |-> ok]

Outcome(files, log, state) == [files |-> files, log |-> log, state |-> state]

\* the loop of set_duty(Some(duty)) with a failed enable write returned
RECURSIVE set_duty_strict(_, _, _, _, _, _, _)
set_duty_strict(fs, i, files, log, duty, en_ok, du_ok) ==
    IF i > Len(fs) THEN Outcome(files, log, "ok")
    ELSE LET n == fs[i].fan_number IN
         IF files[n].pwm = NoValue
         THEN set_duty_strict(fs, i + 1, files, log, duty, en_ok, du_ok)
         ELSE LET en   == write_file(files[n].pwm_enable, 1, en_ok[i])
                  log1 == Append(log, Attempt("pwm_enable", n, 1, en.ok))
                  f1   == [files EXCEPT ![n].pwm_enable = en.value]
                  du   == write_file(f1[n].pwm, duty, du_ok[i])
                  log2 == Append(log1, Attempt("pwm", n, duty, du.ok))
                  f2   == [f1 EXCEPT ![n].pwm = du.value]
              IN IF ~en.ok THEN Outcome(f1, log1, "err")
                 ELSE IF ~du.ok THEN Outcome(f2, log2, "err")
                 ELSE set_duty_strict(fs, i + 1, f2, log2, duty, en_ok,
                                      du_ok)

\* the loop of set_duty(Some(duty)) from the i-th fan on (309-349)
RECURSIVE set_duty(_, _, _, _, _, _, _)
set_duty(fs, i, files, log, duty, en_ok, du_ok) ==
    IF i > Len(fs) THEN Outcome(files, log, "ok")
    ELSE LET n == fs[i].fan_number IN
         IF files[n].pwm = NoValue                \* !pwm_path.exists()
         THEN set_duty(fs, i + 1, files, log, duty, en_ok, du_ok)
         ELSE LET en   == write_file(files[n].pwm_enable, 1, en_ok[i])
                  log1 == Append(log, Attempt("pwm_enable", n, 1, en.ok))
                  f1   == [files EXCEPT ![n].pwm_enable = en.value]
                  du   == write_file(f1[n].pwm, duty, du_ok[i])
                  log2 == Append(log1, Attempt("pwm", n, duty, du.ok))
                  f2   == [f1 EXCEPT ![n].pwm = du.value]
              IN IF ~du.ok THEN Outcome(f2, log2, "err")
                 ELSE set_duty(fs, i + 1, f2, log2, duty, en_ok, du_ok)

\* set_duty(None): "2" is written to every pwm<N>_enable, failures logged
RECURSIVE set_duty_auto(_, _, _, _, _)
set_duty_auto(fs, i, files, log, en_ok) ==
    IF i > Len(fs) THEN Outcome(files, log, "ok")
    ELSE LET n  == fs[i].fan_number
             en == write_file(files[n].pwm_enable, 2, en_ok[i])
         IN set_duty_auto(fs, i + 1,
                          [files EXCEPT ![n].pwm_enable = en.value],
                          Append(log, Attempt("pwm_enable", n, 2, en.ok)),
                          en_ok)

\* set_fan_pwm(fan_number, duty) (255-304)
set_fan_pwm(fs, files, fan_number, duty, en_ok, du_ok) ==
    IF ~\E i \in 1 .. Len(fs) : fs[i].fan_number = fan_number
    THEN Outcome(files, <<>>, "err")
    ELSE IF files[fan_number].pwm = NoValue
    THEN Outcome(files, <<>>, "err")
    ELSE LET exists == files[fan_number].pwm_enable # NoValue
             en   == write_file(files[fan_number].pwm_enable, 1, en_ok)
             log1 == IF exists
                     THEN << Attempt("pwm_enable", fan_number, 1, en.ok) >>
                     ELSE <<>>
             f1   == [files EXCEPT ![fan_number].pwm_enable = en.value]
             du   == write_file(f1[fan_number].pwm, duty, du_ok)
             log2 == Append(log1, Attempt("pwm", fan_number, duty, du.ok))
             f2   == [f1 EXCEPT ![fan_number].pwm = du.value]
         IN Outcome(f2, log2, IF du.ok THEN "ok" ELSE "err")

Outcomes == [1 .. Len(fans) -> BOOLEAN]

DetectorCall(op, fan, duty, out) ==
    /\ hwmon' = out.files
    /\ detector_result' = [op |-> op, state |-> out.state, fan |-> fan,
                           duty |-> duty, log |-> out.log]
    /\ UNCHANGED <<fans, persist_vars, scan_vars, power_vars, curve_vars,
                   pwm_vars, daemon_vars, late_vars>>

SetDuty(duty) ==
    \E en_ok \in Outcomes, du_ok \in Outcomes :
       DetectorCall("set_duty", 0, duty,
                    set_duty(fans, 1, hwmon, <<>>, duty, en_ok, du_ok))

SetDutyAuto ==
    \E en_ok \in Outcomes :
       DetectorCall("set_duty_auto", 0, 0,
                    set_duty_auto(fans, 1, hwmon, <<>>, en_ok))

SetFanPwm(fan_number, duty) ==
    \E en_ok \in BOOLEAN, du_ok \in BOOLEAN :
       DetectorCall("set_fan_pwm", fan_number, duty,
                    set_fan_pwm(fans, hwmon, fan_number, duty, en_ok, du_ok))

-----------------------------------------------------------------------------
(* SpecDiscover: FanDetector::find_fan_sensors (fan_detector.rs 118-173)    *)

MaxInitialize == 2      \* calls of initialize explored
FanScanLimit == 10      \* `if fan_number > 10 { break; }`

CpuLabelLine == <<"C", "P", "U", " ", "F", "a", "n", "\n">>
MixedLabel   == <<"c", "P", "u", "0">>

\* char::to_lowercase on the letters that occur in the labels
LowerChar(ch) ==
    CASE ch = "C" -> "c"
      [] ch = "P" -> "p"
      [] ch = "U" -> "u"
      [] ch = "F" -> "f"
      [] OTHER -> ch

to_lowercase(str) == [i \in 1 .. Len(str) |-> LowerChar(str[i])]

contains(str, pat) ==
    \E i \in 0 .. Len(str) - Len(pat) :
       SubSeq(str, i + 1, i + Len(pat)) = pat

Whitespace == {" ", "\n"}

RECURSIVE trim(_)
trim(str) ==
    IF str = <<>> THEN <<>>
    ELSE IF Head(str) \in Whitespace THEN trim(Tail(str))
    ELSE IF str[Len(str)] \in Whitespace
    THEN trim(SubSeq(str, 1, Len(str) - 1))
    ELSE str

\* fan_label == "CPU Fan" || fan_label == "CPU fan"
\*    || fan_label.to_lowercase().contains("cpu")
is_cpu_label(fan_label) ==
    \/ fan_label = <<"C", "P", "U", " ", "F", "a", "n">>
    \/ fan_label = <<"C", "P", "U", " ", "f", "a", "n">>
    \/ contains(to_lowercase(fan_label), <<"c", "p", "u">>)

DiscoverFiles ==
    {FanFiles("absent", <<>>, i, 0, 2) : i \in BOOLEAN}
       \cup {FanFiles("unreadable", <<>>, i, 0, 2) : i \in BOOLEAN}
       \cup {FanFiles("ok", l, i, 0, 2) :
                l \in {CpuLabelLine, MixedLabel, CaseLabel}, i \in BOOLEAN}

DiscoverInit ==
    /\ hwmon \in [FanNumbers -> DiscoverFiles]
    /\ fans = <<>>
    /\ detector_result = NoDetectorCall

\* label_path.exists() && input_path.exists(); no file beyond MaxFans
fan_files_exist(files, fan_number) ==
    /\ fan_number \in FanNumbers
    /\ files[fan_number].label_state # "absent"
    /\ files[fan_number].input

NotFound == [found |-> FALSE, fan_number |-> 0, fan_label |-> <<>>]

\* the loop of find_fan_sensors from fan_number on
RECURSIVE find_fan_sensors(_, _)
find_fan_sensors(files, fan_number) ==
    IF fan_number > FanScanLimit THEN NotFound
    ELSE IF ~fan_files_exist(files, fan_number) THEN NotFound     \* break
    ELSE IF /\ files[fan_number].label_state = "ok"       \* read_to_string
            /\ is_cpu_label(trim(files[fan_number].label))
    THEN [found |-> TRUE, fan_number |-> fan_number,
          fan_label |-> trim(files[fan_number].label)]
    ELSE find_fan_sensors(files, fan_number + 1)

\* initialize, once the hwmon directory is matched: find_fan_sensors()?
FindFanSensors ==
    /\ Len(fans) < MaxInitialize
    /\ LET r == find_fan_sensors(hwmon, 1) IN
       /\ fans' = IF r.found
                  THEN Append(fans, FanSensor(r.fan_number, r.fan_label))
                  ELSE fans
       /\ detector_result' =
             [op |-> "find_fan_sensors",
              state |-> IF r.found THEN "ok" ELSE "err",
              fan |-> r.fan_number, duty |-> 0, log |-> <<>>]
    /\ UNCHANGED <<hwmon, persist_vars, scan_vars, power_vars, curve_vars,
                   pwm_vars, daemon_vars, late_vars>>

-----------------------------------------------------------------------------
(* SpecMonitor: FanMonitor::run_monitoring_loop and log_fan_data            *)
(* (fan_monitor.rs 520-578) next to the daemon's SetFanCurve                *)

MaxTicks == 2

MonitorTemps  == {40, 70}                 \* degrees Celsius read in a tick
MonitorCurves == {standard, threadripper2}

\* the outcomes of the calls or writes one application makes, in order:
\* all succeed, or one of them fails
Replies == {[k \in 1 .. 3 |-> k # failed] : failed \in 0 .. 3}

\* no tick has run
NoTick ==
    [skipped |-> FALSE, sensors |-> "none", temperature |-> 0,
     curve |-> NoCurve, fan_duty |-> 0, log |-> <<>>, result |-> "none",
     daemon_curve |-> NoCurve, after_change |-> FALSE,
     steps |-> <<>>, time_advanced |-> FALSE]

\* FanMonitor::new
MonitorInit ==
    /\ is_monitoring = FALSE
    /\ current_fan_curve = NoCurve
    /\ system76_power_client = FALSE
    /\ mon_pc = "created"
    /\ ticks = 0
    /\ sleeps = 0
    /\ last_tick = NoTick

\* `(temperature * 1000.0) as u32`: the cast saturates at 0
AsU32FromF32(x) == IF x < 0 THEN 0 ELSE x

\* FanMonitor::calculate_fan_duty_from_curve
calculate_fan_duty_from_curve(curve, temperature) ==
    IF curve # NoCurve
    THEN calculate_duty_for_temperature(curve.points,
                                        AsU32FromF32(temperature * 1000))
    ELSE LET over == IF temperature - 30 > 0 THEN temperature - 30 ELSE 0
             duty_percent == IF over * 2 < 100 THEN over * 2 ELSE 100
         IN  duty_percent * 100

\* the curve the daemon's control surface currently reports
DaemonCurrentCurve ==
    IF current_curve_index < Len(config.curves)
    THEN config.curves[current_curve_index + 1]
    ELSE NoCurve

\* FanMonitor::apply_fan_curve with a System76 Power client: the calls it
\* makes to the power daemon, in order, each with its reply
apply_fan_curve_client(curve, temperature, replies, differs) ==
    IF ~replies[1]
    THEN [log |-> << Attempt("GetFanCurve", 0, 0, FALSE) >>, ok |-> FALSE]
    ELSE LET got == << Attempt("GetFanCurve", 0, 0, TRUE) >> IN
         IF curve = NoCurve THEN [log |-> got, ok |-> TRUE]
         ELSE IF differs /\ ~replies[2]
         THEN [log |-> got \o << Attempt("SetFanCurve", 0, 0, FALSE) >>,
               ok |-> FALSE]
         ELSE LET set == IF differs
                         THEN got \o << Attempt("SetFanCurve", 0, 0, TRUE) >>
                         ELSE got
                  duty == calculate_fan_duty_from_curve(curve, temperature)
              IN  [log |-> set \o << Attempt("ApplyFanCurve", 0,
                                             duty \div 100, replies[3]) >>,
                   ok |-> replies[3]]

\* FanDetector::get_cpu_fan: the number of the first CPU fan, or NoValue
get_cpu_fan(fs) ==
    IF \E i \in 1 .. Len(fs) : is_cpu_label(fs[i].fan_label)
    THEN fs[CHOOSE i \in 1 .. Len(fs) :
               /\ is_cpu_label(fs[i].fan_label)
               /\ \A k \in 1 .. i - 1 : ~is_cpu_label(fs[k].fan_label)
           ].fan_number
    ELSE NoValue

\* FanMonitor::apply_fan_curve without a client: the duty is written
\* through the fan detector; a failed set_duty is followed by set_fan_pwm
\* on the CPU fan, and Ok is returned either way
apply_fan_curve_direct(curve, temperature, replies, fs, files) ==
    IF fs = <<>>                       \* !self.fan_detector.is_initialized()
    THEN [log |-> <<>>, ok |-> TRUE, files |-> files]
    ELSE LET duty == calculate_fan_duty_from_curve(curve, temperature)
             pwm_value == duty_to_pwm(duty)
             all == set_duty(fs, 1, files, <<>>, pwm_value,
                             [i \in 1 .. Len(fs) |-> replies[1]],
                             [i \in 1 .. Len(fs) |-> replies[2]])
         IN  IF all.state = "ok" \/ get_cpu_fan(fs) = NoValue
             THEN [log |-> all.log, ok |-> TRUE, files |-> all.files]
             ELSE LET one == set_fan_pwm(fs, all.files, get_cpu_fan(fs),
                                         pwm_value, replies[1], replies[3])
                  IN  [log |-> all.log \o one.log, ok |-> TRUE,
                       files |-> one.files]

\* FanMonitor::apply_fan_curve
apply_fan_curve(client, curve, temperature, replies, differs, fs, files) ==
    IF client
    THEN LET applied == apply_fan_curve_client(curve, temperature, replies,
                                               differs)
         IN  [log |-> applied.log, ok |-> applied.ok, files |-> files]
    ELSE apply_fan_curve_direct(curve, temperature, replies, fs, files)

\* get_current_fan_data that reads the sensors whether or not a client
\* is there
get_current_fan_data_without_client(sensors_ok, temperature) ==
    IF ~sensors_ok
    THEN [ok |-> FALSE, temperature |-> 0, fan_duty |-> 0]
    ELSE [ok |-> TRUE, temperature |-> temperature,
          fan_duty |-> calculate_fan_duty_from_curve(current_fan_curve,
                                                     temperature)]

\* FanMonitor::get_current_fan_data: an error without a client or when a
\* sensor read fails, else the sample with the duty computed for it
get_current_fan_data(sensors_ok, temperature) ==
    IF ~system76_power_client \/ ~sensors_ok
    THEN [ok |-> FALSE, temperature |-> 0, fan_duty |-> 0]
    ELSE [ok |-> TRUE, temperature |-> temperature,
          fan_duty |-> calculate_fan_duty_from_curve(current_fan_curve,
                                                     temperature)]

\* log_fan_data that sets last_log_time before it reads the sample
log_fan_data_stamping(early, sensors_ok, temperature, replies, differs) ==
    IF ~is_monitoring \/ early
    THEN [tick |-> [NoTick EXCEPT !.skipped = TRUE, !.result = "ok"],
          files |-> hwmon]
    ELSE LET data == get_current_fan_data(sensors_ok, temperature) IN
         IF ~data.ok
         THEN [tick |-> [NoTick EXCEPT !.sensors = "err", !.result = "err",
                                       !.steps = << "read" >>,
                                       !.time_advanced = TRUE],
               files |-> hwmon]
         ELSE LET applied == apply_fan_curve(system76_power_client,
                                current_fan_curve, data.temperature,
                                replies, differs, fans, hwmon)
              IN  [tick |->
                      [skipped |-> FALSE, sensors |-> "ok",
                       temperature |-> data.temperature,
                       curve |-> current_fan_curve,
                       fan_duty |-> data.fan_duty,
                       log |-> applied.log,
                       result |-> "ok",
                       daemon_curve |-> DaemonCurrentCurve,
                       after_change |-> current_curve_index # 0,
                       steps |-> << "read", "compute", "apply" >>,
                       time_advanced |-> TRUE],
                   files |-> applied.files]

\* FanMonitor::log_fan_data: what one tick did and returned, and the
\* fan files after it.  early: less than a second has passed since
\* last_log_time
log_fan_data(early, sensors_ok, temperature, replies, differs) ==
    IF ~is_monitoring \/ early
    THEN [tick |-> [NoTick EXCEPT !.skipped = TRUE, !.result = "ok"],
          files |-> hwmon]
    ELSE LET data == get_current_fan_data(sensors_ok, temperature) IN
         IF ~data.ok
         THEN \* get_current_fan_data()? returned the error
              [tick |-> [NoTick EXCEPT !.sensors = "err", !.result = "err",
                                       !.steps = << "read" >>],
               files |-> hwmon]
         ELSE LET applied == apply_fan_curve(system76_power_client,
                                current_fan_curve, data.temperature,
                                replies, differs, fans, hwmon)
              IN  [tick |->
                      [skipped |-> FALSE, sensors |-> "ok",
                       temperature |-> data.temperature,
                       curve |-> current_fan_curve,
                       fan_duty |-> data.fan_duty,
                       log |-> applied.log,
                       \* a failed apply_fan_curve is only warned about
                       result |-> "ok",
                       daemon_curve |-> DaemonCurrentCurve,
                       after_change |-> current_curve_index # 0,
                       steps |-> << "read", "compute", "apply" >>,
                       \* self.last_log_time = Instant::now()
                       time_advanced |-> TRUE],
                   files |-> applied.files]

\* `while self.is_monitoring`
while_is_monitoring == IF is_monitoring THEN "tick" ELSE "returned"

\* ---- what the owner does before it hands the monitor to the loop ----
InitializeSystem76Power ==
    /\ mon_pc = "created"
    /\ \E available \in BOOLEAN :
          system76_power_client' = (system76_power_client \/ available)
    /\ UNCHANGED <<is_monitoring, current_fan_curve, mon_pc, ticks, sleeps,
                   last_tick, daemon_vars, beside_monitor>>

MonitorSetFanCurve(curve) ==
    /\ mon_pc = "created"
    /\ current_fan_curve' = curve
    /\ UNCHANGED <<is_monitoring, system76_power_client, mon_pc, ticks,
                   sleeps, last_tick, daemon_vars, beside_monitor>>

StartMonitoring ==
    /\ mon_pc = "created"
    /\ is_monitoring' = TRUE
    /\ UNCHANGED <<current_fan_curve, system76_power_client, mon_pc, ticks,
                   sleeps, last_tick, daemon_vars, beside_monitor>>

StopMonitoring ==
    /\ mon_pc = "created"
    /\ is_monitoring' = FALSE
    /\ UNCHANGED <<current_fan_curve, system76_power_client, mon_pc, ticks,
                   sleeps, last_tick, daemon_vars, beside_monitor>>

\* the owner calls apply_fan_curve(temperature) itself
ApplyFanCurve(temperature) ==
    /\ mon_pc = "created"
    /\ \E replies \in Replies, differs \in BOOLEAN :
          \E applied \in {apply_fan_curve(system76_power_client,
                             current_fan_curve, temperature, replies,
                             differs, fans, hwmon)} :
              /\ hwmon' = applied.files
              /\ last_tick' =
                    [NoTick EXCEPT !.temperature = temperature,
                                   !.curve = current_fan_curve,
                                   !.log = applied.log,
                                   !.result = IF applied.ok THEN "ok"
                                              ELSE "err",
                                   !.steps = << "apply" >>]
    /\ UNCHANGED <<is_monitoring, current_fan_curve, system76_power_client,
                   mon_pc, ticks, sleeps, daemon_vars, beside_tick>>

\* ---- run_monitoring_loop ----
RunMonitoringLoop ==
    /\ mon_pc = "created"
    /\ mon_pc' = while_is_monitoring
    /\ UNCHANGED <<is_monitoring, current_fan_curve, system76_power_client,
                   ticks, sleeps, last_tick, daemon_vars, beside_monitor>>

\* a failed tick that ends the loop, as `self.log_fan_data().await?` would
LogFanData_propagating ==
    /\ mon_pc = "tick"
    /\ ticks < MaxTicks
    /\ \E early \in BOOLEAN, sensors_ok \in BOOLEAN,
          temperature \in MonitorTemps, replies \in Replies,
          differs \in BOOLEAN :
          /\ early => ticks = 0
          /\ LET done == log_fan_data(early, sensors_ok, temperature,
                                      replies, differs)
             IN  last_tick' = done.tick /\ hwmon' = done.files
    /\ ticks' = ticks + 1
    /\ mon_pc' = IF last_tick'.result = "err" THEN "returned" ELSE "sleep"
    /\ UNCHANGED <<is_monitoring, current_fan_curve, system76_power_client,
                   sleeps, daemon_vars, beside_tick>>

\* one tick: `if let Err(e) = self.log_fan_data().await { warn!(..) }`
LogFanData ==
    /\ mon_pc = "tick"
    /\ ticks < MaxTicks
    /\ \E early \in BOOLEAN, sensors_ok \in BOOLEAN,
          temperature \in MonitorTemps, replies \in Replies,
          differs \in BOOLEAN :
          /\ early => ticks = 0
          /\ LET done == log_fan_data(early, sensors_ok, temperature,
                                      replies, differs)
             IN  last_tick' = done.tick /\ hwmon' = done.files
    /\ ticks' = ticks + 1
    /\ mon_pc' = "sleep"
    /\ UNCHANGED <<is_monitoring, current_fan_curve, system76_power_client,
                   sleeps, daemon_vars, beside_tick>>

\* `sleep(Duration::from_secs(1)).await`, then the loop condition
Sleep ==
    /\ mon_pc = "sleep"
    /\ sleeps' = sleeps + 1
    /\ mon_pc' = while_is_monitoring
    /\ UNCHANGED <<is_monitoring, current_fan_curve, system76_power_client,
                   ticks, last_tick, daemon_vars, beside_monitor>>

\* start_fan_monitoring: `monitor_handle.abort()` once the test duration
\* has passed; the task is dropped where it waits
Abort ==
    /\ mon_pc \in {"tick", "sleep"}
    /\ mon_pc' = "aborted"
    /\ UNCHANGED <<is_monitoring, current_fan_curve, system76_power_client,
                   ticks, sleeps, last_tick, daemon_vars, beside_monitor>>

-----------------------------------------------------------------------------
(* SpecMain: the power daemon's main loop and its termination signal        *)
(* (src/mod.rs 49-64, 635-771)                                              *)

MaxFanSteps == 5

Signals == {"SIGINT", "SIGHUP", "SIGTERM"}

\* `static CONTINUE: AtomicBool = AtomicBool::new(true)`, daemon() entered
MainInit ==
    /\ CONTINUE = TRUE
    /\ daemon_pc = "startup"
    /\ daemon_result = "none"
    /\ main_pc = "created"
    /\ signal_pc = "created"
    /\ caught = "none"
    /\ loads = 0
    /\ fan_steps = 0
    /\ steps_after_clear = 0

\* PowerDaemon::new()? or one of the D-Bus registrations fails: daemon()
\* returns the error before the main loop exists
StartupFails ==
    /\ daemon_pc = "startup"
    /\ daemon_pc' = "returned"
    /\ daemon_result' = "err"
    /\ UNCHANGED <<CONTINUE, main_pc, signal_pc, caught, loads, fan_steps,
                   steps_after_clear, daemon_vars, beside_main>>

\* `futures_lite::future::zip(signal_handling_fut, main_loop)` is polled
\* for the first time: the handlers are installed, `let mut last = hpd()`
Zip ==
    /\ daemon_pc = "startup"
    /\ daemon_pc' = "running"
    /\ main_pc' = "while"
    /\ signal_pc' = "select"
    /\ UNCHANGED <<CONTINUE, daemon_result, caught, loads, fan_steps,
                   steps_after_clear, daemon_vars, beside_main>>

\* signal_handling: one of the three signals arrives, the flag is cleared
signal_handling(sig) ==
    /\ signal_pc = "select"
    /\ caught' = sig
    /\ CONTINUE' = FALSE
    /\ signal_pc' = "done"
    /\ UNCHANGED <<daemon_pc, daemon_result, main_pc, loads, fan_steps,
                   steps_after_clear, daemon_vars, beside_main>>

\* a loop that goes on while no signal has been caught at all, whatever
\* the flag says when it is read after a step
LoadContinue_latched ==
    /\ main_pc = "while"
    /\ loads' = loads + 1
    /\ main_pc' = IF CONTINUE \/ steps_after_clear < 2 THEN "sleep"
                  ELSE "exited"
    /\ UNCHANGED <<CONTINUE, daemon_pc, daemon_result, signal_pc, caught,
                   fan_steps, steps_after_clear, daemon_vars, beside_main>>

\* `while CONTINUE.load(Ordering::SeqCst)`
LoadContinue ==
    /\ main_pc = "while"
    /\ loads' = loads + 1
    /\ main_pc' = IF CONTINUE THEN "sleep" ELSE "exited"
    /\ UNCHANGED <<CONTINUE, daemon_pc, daemon_result, signal_pc, caught,
                   fan_steps, steps_after_clear, daemon_vars, beside_main>>

\* `sleep(Duration::from_millis(1000)).await`
SleepMain ==
    /\ main_pc = "sleep"
    /\ main_pc' = "step"
    /\ UNCHANGED <<CONTINUE, daemon_pc, daemon_result, signal_pc, caught,
                   loads, fan_steps, steps_after_clear, daemon_vars,
                   beside_main>>

\* `fan_daemon.step()` and the rest of the iteration
FanStep ==
    /\ main_pc = "step"
    /\ fan_steps < MaxFanSteps
    /\ fan_steps' = fan_steps + 1
    /\ steps_after_clear' = IF CONTINUE THEN steps_after_clear
                            ELSE steps_after_clear + 1
    /\ main_pc' = "while"
    /\ UNCHANGED <<CONTINUE, daemon_pc, daemon_result, signal_pc, caught,
                   loads, daemon_vars, beside_main>>

\* zip is ready when both futures are: `Ok(())`
DaemonReturns ==
    /\ daemon_pc = "running"
    /\ main_pc = "exited"
    /\ signal_pc = "done"
    /\ daemon_pc' = "returned"
    /\ daemon_result' = "ok"
    /\ UNCHANGED <<CONTINUE, main_pc, signal_pc, caught, loads, fan_steps,
                   steps_after_clear, daemon_vars, beside_main>>

-----------------------------------------------------------------------------
(* SpecStartup: FanCurveDaemon::new and load_config (daemon/mod.rs 24-60)   *)

\* what the config path can hold when the daemon starts
StartupFiles ==
    {Absent, Partial}
       \cup {Written(doc) : doc \in ForeignDocs}
       \cup {Written(to_json(cfg)) :
                cfg \in PersistConfigs \cup
                        {FanCurveConfig_new,
                         \* the user made Threadripper 2 the default
                         [FanCurveConfig_new EXCEPT
                             !.default_curve_index = 1]}}

\* main has not called FanCurveDaemon::new yet
StartupIdle ==
    /\ startup_pc = "main"
    /\ thelio = FALSE

\* FanCurveDaemon::load_config: the file is loaded when it exists, else the
\* built-in config is written to it; either error is returned
load_config(readable, written) ==
    /\ startup_pc = "main"
    /\ IF config_file.state # "absent"
       THEN LET loaded == load_from_file(config_file, readable) IN
            /\ IF loaded.state = "ok"
               THEN config' = loaded.config /\ startup_pc' = "thelio"
               ELSE UNCHANGED config /\ startup_pc' = "err"
            /\ UNCHANGED config_file
       ELSE IF written = "complete"
       THEN /\ config_file' = Written(to_json(FanCurveConfig_new))
            /\ config' = FanCurveConfig_new
            /\ startup_pc' = "thelio"
       ELSE /\ config_file' = IF written = "partial" THEN Partial ELSE Absent
            /\ UNCHANGED config
            /\ startup_pc' = "err"
    /\ UNCHANGED <<current_curve_index, tmp_file, lock_vars, caller_vars,
                   thelio, beside_startup>>

\* the rest of FanCurveDaemon::new: the Thelio client is optional
ThelioIoClient_new(available) ==
    /\ startup_pc = "thelio"
    /\ thelio' = available
    /\ current_curve_index' = 0
    /\ startup_pc' = "ok"
    /\ UNCHANGED <<config, file_vars, lock_vars, caller_vars,
                   beside_startup>>

-----------------------------------------------------------------------------
(* Specifications                                                           *)

\* the daemon has not been constructed; the config path holds file
DaemonBefore(file) ==
    /\ config = EmptyConfig
    /\ current_curve_index = 0
    /\ config_lock = 0 /\ index_lock = 0
    /\ config_file = file
    /\ tmp_file = Absent
    /\ pc = [c \in Callers |-> "idle"]
    /\ call = [c \in Callers |-> NoCall]
    /\ retries = [c \in Callers |-> 0]
    /\ result = [c \in Callers |-> "none"]
    /\ attempts = [c \in Callers |-> 0]
    /\ saved = [c \in Callers |-> 0]
    /\ validation = [c \in Callers |-> "none"]
    /\ pre = [c \in Callers |->
                 [config |-> EmptyConfig, current_curve_index |-> 0,
                  config_file |-> Absent]]
    /\ ncalls = 0

DaemonIdle == DaemonBefore(Absent)

LateIdle == MonitorInit /\ MainInit /\ StartupIdle

ExtIdle == PersistIdle /\ ScanIdle /\ PowerIdle /\ DetectorIdle /\ LateIdle

\* the daemon and its control surface
Init == DaemonInit /\ CurveInit /\ PwmIdle /\ ExtIdle

Next ==
    \E c \in Callers :
       \/ \E temp \in AddTemps, duty \in AddDuties :
             add_fan_curve_point(c, temp, duty)
       \/ add_lock_config(c)
       \/ add_point_to_current(c)
       \/ remove_fan_curve_point(c)
       \/ remove_lock_config(c)
       \/ remove_point_of_current(c)
       \/ \E name \in CurveNames : set_default_fan_curve(c, name)
       \/ set_default_index(c)
       \/ save_config(c)
       \/ \E index \in CurveIndexes : set_fan_curve(c, index)
       \/ set_lock_index(c)
       \/ set_current_index(c)
       \/ save_config_internal(c)
       \/ create_dir_all(c)
       \/ write_tmp_begin(c)
       \/ write_tmp_end(c)
       \/ rename_tmp(c)
       \/ validate_persistence(c)
       \/ validate_write_begin(c)
       \/ validate_write_end(c)
       \/ validate_load(c)
       \/ Return(c)

Spec == Init /\ [][Next]_vars

\* one curve and the interpolation
InitCurve == CurveInit /\ PwmIdle /\ DaemonIdle /\ ExtIdle

NextCurve ==
    \/ \E temp \in PointTemps, duty \in PointDuties : AddPoint(temp, duty)
    \/ RemoveLastPoint
    \/ \E index \in 0 .. MaxPoints : RemovePoint(index)
    \/ \E t \in CalcTemps : Calculate(t)

SpecCurve == InitCurve /\ [][NextCurve]_vars

\* the PWM register
InitPwm == PwmInit /\ CurveInit /\ DaemonIdle /\ ExtIdle

NextPwm ==
    \/ WritePwm
    \/ ReadPwm

SpecPwm == InitPwm /\ [][NextPwm]_vars

\* the config file written and read back
InitPersist ==
    PersistInit /\ CurveInit /\ PwmIdle /\ DaemonIdle /\ ScanIdle
       /\ PowerIdle /\ DetectorIdle /\ LateIdle

NextPersist ==
    \/ SaveToFile
    \/ LoadFromFile
    \/ \E doc \in ForeignDocs : ForeignWrite(doc)
    \/ ValidateSave
    \/ ValidateCompare

SpecPersist == InitPersist /\ [][NextPersist]_vars

\* the scan of the storage directories
InitScan ==
    ScanInit /\ CurveInit /\ PwmIdle /\ DaemonIdle /\ PersistIdle
       /\ PowerIdle /\ DetectorIdle /\ LateIdle

NextScan == LoadAllFanCurves

SpecScan == InitScan /\ [][NextScan]_vars

\* SetFanCurvePersistent and LoadAllFanCurves of the power daemon
InitPower ==
    PowerInit /\ CurveInit /\ PwmIdle /\ DaemonIdle /\ PersistIdle
       /\ DetectorIdle /\ LateIdle

NextPower ==
    \/ \E name \in PowerNames, curve \in PowerCurves :
          set_fan_curve_persistent(name, curve)
    \/ mkdir_etc
    \/ mkdir_var
    \/ save_etc
    \/ save_var
    \/ save_default
    \/ LoadAllFanCurves

SpecPower == InitPower /\ [][NextPower]_vars

\* duty writes of the fan detector
InitDuty ==
    DutyInit /\ CurveInit /\ PwmIdle /\ DaemonIdle /\ PersistIdle
       /\ ScanIdle /\ PowerIdle /\ LateIdle

NextDuty ==
    \/ \E duty \in PwmDuties : SetDuty(duty)
    \/ SetDutyAuto
    \/ \E n \in FanNumbers, duty \in PwmDuties : SetFanPwm(n, duty)

SpecDuty == InitDuty /\ [][NextDuty]_vars

\* fan discovery
InitDiscover ==
    DiscoverInit /\ CurveInit /\ PwmIdle /\ DaemonIdle /\ PersistIdle
       /\ ScanIdle /\ PowerIdle /\ LateIdle

NextDiscover == FindFanSensors

SpecDiscover == InitDiscover /\ [][NextDiscover]_vars

\* the monitoring loop next to a daemon started with the built-in curves
InitMonitor ==
    /\ MonitorInit
    /\ DaemonInit /\ config = FanCurveConfig_new
    /\ CurveInit /\ PwmIdle /\ PersistIdle /\ ScanIdle /\ PowerIdle
    /\ DetectorIdle /\ MainInit /\ StartupIdle

NextMonitor ==
    \/ InitializeSystem76Power
    \/ \E curve \in MonitorCurves : MonitorSetFanCurve(curve)
    \/ StartMonitoring
    \/ StopMonitoring
    \/ RunMonitoringLoop
    \/ LogFanData
    \/ Sleep
    \/ Abort
    \/ \E c \in Callers :
          \/ \E index \in CurveIndexes : set_fan_curve(c, index)
          \/ set_lock_index(c)
          \/ set_current_index(c)
          \/ Return(c)

SpecMonitor == InitMonitor /\ [][NextMonitor]_vars

\* the monitor on its own, with a fan detector that found the CPU fan (or
\* found none)
LoopDetectorInit ==
    /\ fans \in { <<>>, << FanSensor(1, CpuLabel) >> }
    /\ \E enable \in {NoValue, 2} :
          hwmon = [n \in FanNumbers |->
                     IF n = 1
                     THEN FanFiles("ok", CpuLabel, TRUE, 0, enable)
                     ELSE FanFiles("absent", <<>>, FALSE, NoValue, NoValue)]
    /\ detector_result = NoDetectorCall

InitLoop ==
    /\ MonitorInit
    /\ LoopDetectorInit
    /\ DaemonIdle /\ CurveInit /\ PwmIdle /\ PersistIdle /\ ScanIdle
    /\ PowerIdle /\ MainInit /\ StartupIdle

NextLoop ==
    \/ InitializeSystem76Power
    \/ \E curve \in MonitorCurves : MonitorSetFanCurve(curve)
    \/ \E temperature \in MonitorTemps : ApplyFanCurve(temperature)
    \/ StartMonitoring
    \/ StopMonitoring
    \/ RunMonitoringLoop
    \/ LogFanData
    \/ Sleep
    \/ Abort

SpecLoop == InitLoop /\ [][NextLoop]_vars

\* the power daemon from start to return
InitMain ==
    /\ MainInit
    /\ DaemonIdle /\ CurveInit /\ PwmIdle /\ PersistIdle /\ ScanIdle
    /\ PowerIdle /\ DetectorIdle /\ MonitorInit /\ StartupIdle

NextMain ==
    \/ StartupFails
    \/ Zip
    \/ \E sig \in Signals : signal_handling(sig)
    \/ LoadContinue
    \/ SleepMain
    \/ FanStep
    \/ DaemonReturns

SpecMain == InitMain /\ [][NextMain]_vars

\* the daemon's start-up on whatever the config path holds
InitStartup ==
    /\ StartupIdle
    /\ \E file \in StartupFiles : DaemonBefore(file)
    /\ CurveInit /\ PwmIdle /\ PersistIdle /\ ScanIdle /\ PowerIdle
    /\ DetectorIdle /\ MonitorInit /\ MainInit

NextStartup ==
    \/ \E readable \in BOOLEAN,
          written \in {"complete", "partial", "not_created"} :
          load_config(readable, written)
    \/ \E available \in BOOLEAN : ThelioIoClient_new(available)

SpecStartup == InitStartup /\ [][NextStartup]_vars

\* two tasks serving control-surface calls at the same time
ConcurrentCallers == {1, 2}

InitLocks ==
    /\ DaemonStart(ConcurrentCallers, {FanCurveConfig_new})
    /\ CurveInit /\ PwmIdle /\ ExtIdle

NextLocks ==
    \E c \in ConcurrentCallers :
       \/ get_current_fan_curve(c)
       \/ get_lock_config(c)
       \/ get_current_curve(c)
       \/ set_fan_curve(c, 1)
       \/ set_lock_index(c)
       \/ set_current_index(c)
       \/ add_fan_curve_point(c, 50, 50)
       \/ add_lock_config(c)
       \/ add_point_to_current(c)
       \/ remove_fan_curve_point(c)
       \/ remove_lock_config(c)
       \/ remove_point_of_current(c)
       \/ set_default_fan_curve(c, "Standard")
       \/ set_default_index(c)
       \/ save_config_internal(c)
       \/ create_dir_all(c)
       \/ write_tmp_begin(c)
       \/ write_tmp_end(c)
       \/ rename_tmp(c)
       \/ Return(c)

SpecLocks == InitLocks /\ [][NextLocks]_vars

-----------------------------------------------------------------------------
(* Properties of the curve model (SpecCurve)                                *)

PointIndexes == 1 .. Len(points)
LowestTemp  == CHOOSE t \in {points[i].temp : i \in PointIndexes} :
                   \A i \in PointIndexes : t <= points[i].temp
HighestTemp == CHOOSE t \in {points[i].temp : i \in PointIndexes} :
                   \A i \in PointIndexes : t >= points[i].temp
DutiesAt(t) == {points[i].duty : i \in {k \in PointIndexes :
                                           points[k].temp = t}}
FirstAt(t)  == CHOOSE i \in PointIndexes :
                   /\ points[i].temp = t
                   /\ \A k \in 1 .. i - 1 : points[k].temp # t
LastAt(t)   == CHOOSE i \in PointIndexes :
                   /\ points[i].temp = t
                   /\ \A k \in i + 1 .. Len(points) : points[k].temp # t

\* C3: on a curve with at least one point, a temperature at or below the
\* lowest point's temperature gives the lowest point's duty and one at or
\* above the highest point's temperature gives the highest point's duty
\* (where several points share the extreme temperature, the duty of any of
\* them is accepted).
C3_ClampAtExtremes ==
    (calc.valid /\ points # <<>>) =>
        /\ calc.temp <= LowestTemp * 1000
              => calc.duty \in DutiesAt(LowestTemp)
        /\ calc.temp >= HighestTemp * 1000
              => calc.duty \in DutiesAt(HighestTemp)

\* C4, as stated: at the exact temperature of any point p of the curve the
\* result is p's duty.
C4_ExactAtEveryPoint ==
    calc.valid =>
        \A i \in PointIndexes :
            points[i].temp * 1000 = calc.temp => calc.duty = points[i].duty

\* C4, amended: at the exact temperature of a point p the result is the duty
\* of a point with p's temperature: the first such point of the list, or the
\* last one when that temperature is the curve's highest and not also its
\* lowest; so it is p's own duty when no other point has p's temperature.
C4_ExactAtPoint ==
    calc.valid =>
        \A i \in PointIndexes :
            points[i].temp * 1000 = calc.temp =>
                LET t == points[i].temp IN
                /\ calc.duty = IF t = HighestTemp /\ t # LowestTemp
                               THEN points[LastAt(t)].duty
                               ELSE points[FirstAt(t)].duty
                /\ DutiesAt(t) = {points[i].duty}
                       => calc.duty = points[i].duty

\* a point strictly inside the curve is hit exactly by the interpolation
C4_Witness ==
    /\ calc.valid
    /\ \E i \in 2 .. Len(points) - 1 :
          /\ points[i].temp * 1000 = calc.temp
          /\ points[i - 1].temp < points[i].temp
          /\ points[i].temp < points[Len(points)].temp
          /\ points[i - 1].duty # points[i].duty
          /\ calc.duty = points[i].duty

\* the first adjacent pair around a temperature, in ascending order
FirstPair(t) ==
    CHOOSE i \in 1 .. Len(points) - 1 :
        /\ points[i].temp <= t /\ t <= points[i + 1].temp
        /\ \A k \in 1 .. i - 1 :
              ~(points[k].temp <= t /\ t <= points[k + 1].temp)

\* round(duty1 + (t - temp1) / (temp2 - temp1) * (duty2 - duty1)), every
\* operation in single precision
RoundedLine(p1, p2, t) ==
    LET factor == F32Div(t - p1.temp, p2.temp - p1.temp)
        delta  == IF p2.duty >= p1.duty THEN p2.duty - p1.duty
                  ELSE p1.duty - p2.duty
    IN  F32AddRound(p1.duty, p2.duty >= p1.duty, F32Mul(factor, delta))

C6_PointsSorted ==
    \A i \in 1 .. Len(points) - 1 : points[i].temp <= points[i + 1].temp

\* a full curve with a point of lower temperature added after a higher one
\* has it in front
C6_Witness ==
    /\ Len(points) = MaxPoints
    /\ points[1].temp < points[Len(points)].temp

-----------------------------------------------------------------------------
(* Properties of the PWM conversions (SpecPwm)                              *)

\* n / d rounded to the nearest integer
RoundDiv(n, d) == (2 * n + d) \div (2 * d)

\* C9, as stated: the raw value written is round(d * 255 / 10000) and the
\* duty read back from a raw value p is round(p * 10000 / 255).
C9_RoundedConversion ==
    /\ (pwm_written /\ duty_req <= DutyScale)
           => pwm_reg = RoundDiv(duty_req * 255, 10000)
    /\ duty_read # NoValue
           => duty_read = RoundDiv(pwm_reg * 10000, 255)

\* C9, amended: both conversions drop the fraction: the raw value written is
\* the largest p with p * 10000 <= d * 255, and the duty read back from p is
\* the largest r with r * 255 <= p * 10000.
C9_TruncatedConversion ==
    /\ (pwm_written /\ duty_req <= DutyScale) =>
           /\ pwm_reg \in 0 .. PwmMax
           /\ pwm_reg * 10000 <= duty_req * 255
           /\ duty_req * 255 < (pwm_reg + 1) * 10000
    /\ duty_read # NoValue =>
           /\ duty_read * 255 <= pwm_reg * 10000
           /\ pwm_reg * 10000 < (duty_read + 1) * 255

\* half scale is written as 127, not 128, and read back as 4980
C9_Witness ==
    /\ pwm_written /\ duty_req = 5000 /\ pwm_reg = 127 /\ duty_read = 4980

\* C10, as stated: a duty written and read back differs from itself by at
\* most 1.
C10_RoundTripWithinOne ==
    (pwm_written /\ duty_req <= DutyScale /\ duty_read # NoValue) =>
        /\ duty_read - duty_req <= 1
        /\ duty_req - duty_read <= 1

\* C10, amended: a duty written and read back is never above itself and is
\* below itself by at most 40 (one raw step is 10000 / 255 units wide).
C10_RoundTripWithinStep ==
    (pwm_written /\ duty_req <= DutyScale /\ duty_read # NoValue) =>
        /\ duty_read <= duty_req
        /\ duty_req - duty_read <= 40

\* the largest loss: 196 is written as 4 and read back as 156
C10_Witness ==
    /\ pwm_written /\ duty_req = 196 /\ pwm_reg = 4 /\ duty_read = 156

-----------------------------------------------------------------------------
(* Properties of the daemon (Spec)                                          *)

\* C1: the config file is only ever replaced by the rename of a completely
\* written temporary file, so the file at the target path is never a
\* partially written one.
C1_NeverPartiallyWritten == config_file.state # "partial"

SaveSteps == {"save_lock", "save_mkdir", "save_tmp_open", "save_tmp_write",
              "save_rename"}

\* C2: one call of ensure_config_saved makes at most 3 attempts, none after
\* the first that succeeds; the method returns the save error exactly when
\* no attempt succeeded, which takes all 3; a failed validation leaves the
\* call a success.
C2_RetryUntilSaved ==
    \A c \in Callers :
        /\ attempts[c] <= 3
        /\ saved[c] <= 1
        /\ saved[c] = 1 => pc[c] \notin SaveSteps
        /\ (pc[c] = "done" /\ attempts[c] > 0) =>
              /\ result[c] = "save_failed" <=> saved[c] = 0
              /\ result[c] # "save_failed" => result[c] = "ok"
              /\ saved[c] = 0 => attempts[c] = 3
        /\ validation[c] = "failed" => (saved[c] = 1 /\ result[c] = "ok")

\* the third attempt succeeded and the validation after it failed
C2_Witness ==
    \E c \in Callers :
        /\ pc[c] = "done" /\ attempts[c] = 3 /\ saved[c] = 1
        /\ validation[c] = "failed" /\ result[c] = "ok"

OutOfRange(cl) ==
    /\ cl.method = "AddFanCurvePoint"
    /\ ~(cl.temp \in 0 .. 100 /\ cl.duty \in 0 .. 100)

\* C7: AddFanCurvePoint with a temperature or a duty outside 0..100 returns
\* an error at once; the curves, the default and the current selection and
\* the persisted file are as before the call and no save was attempted.
C7_RejectsOutOfRange ==
    \A c \in Callers :
        OutOfRange(call[c]) =>
            /\ pc[c] \in {"done", "idle"}
            /\ result[c] = "invalid_values"
            /\ config = pre[c].config
            /\ current_curve_index = pre[c].current_curve_index
            /\ config_file = pre[c].config_file
            /\ attempts[c] = 0

\* AddFanCurvePoint(150, 50) has returned its error
C7_Witness ==
    \E c \in Callers :
        /\ pc[c] = "done" /\ call[c].method = "AddFanCurvePoint"
        /\ call[c].temp = 150 /\ call[c].duty = 50
        /\ result[c] = "invalid_values"

\* C8: RemoveFanCurvePoint on a current curve without points returns an
\* error and leaves config and file alone, with no save attempted; on a
\* curve of n > 0 points it leaves the first n - 1 of them, none of which
\* has a higher temperature than the point removed.
C8_RemovesLastPoint ==
    \A c \in Callers :
        (/\ pc[c] = "done"
         /\ call[c].method = "RemoveFanCurvePoint"
         /\ pre[c].current_curve_index < Len(pre[c].config.curves)) =>
            LET index == pre[c].current_curve_index
                ps    == pre[c].config.curves[index + 1].points
                n     == Len(ps)
            IN  IF n = 0
                THEN /\ result[c] = "no_points"
                     /\ config = pre[c].config
                     /\ config_file = pre[c].config_file
                     /\ attempts[c] = 0
                ELSE /\ result[c] \in {"ok", "save_failed"}
                     /\ config = [pre[c].config EXCEPT
                                     !.curves[index + 1].points =
                                         [i \in 1 .. n - 1 |-> ps[i]]]
                     /\ \A i \in 1 .. n - 1 : ps[i].temp <= ps[n].temp

\* a point added in the middle of the current curve was not the one removed
C8_Witness ==
    \E c \in Callers :
        /\ pc[c] = "done" /\ call[c].method = "RemoveFanCurvePoint"
        /\ result[c] = "ok"
        /\ current_curve_index < Len(config.curves)
        /\ \E i \in 1 .. Len(config.curves[current_curve_index + 1].points) :
              config.curves[current_curve_index + 1].points[i]
                  = FanPoint(50, 50)

-----------------------------------------------------------------------------
(* Properties of the config file (SpecPersist)                              *)

\* C11: a config read back from the file save_to_file wrote has the same
\* curves (count, names in order, point sequences) and the same default
\* selection as the config that was saved, and validate_persistence returns
\* Ok exactly when the config it reloaded equals the one in memory.
C11_SaveLoadRoundTrip ==
    /\ (/\ loaded_config.state \in {"ok", "parse_error"}
        /\ loaded_config.file = Written(to_json(self_config)))
          => /\ loaded_config.state = "ok"
             /\ loaded_config.config = self_config
    /\ persist_result \in {"ok", "err"}
          => (persist_result = "ok"
                <=> /\ loaded_config.state = "ok"
                    /\ loaded_config.config = self_config)

\* a config with a negative temperature, a full-range duty and a default
\* selection was saved and read back, and a validation has passed
C11_Witness ==
    /\ Len(self_config.curves) = 2
    /\ self_config.curves[2].points
          = << FanPoint(-32768, 0), FanPoint(100, 65535) >>
    /\ self_config.default_curve_index = 5
    /\ loaded_config.state = "ok"
    /\ loaded_config.file = Written(to_json(self_config))
    /\ persist_result = "ok"


-----------------------------------------------------------------------------
(* Properties of the directory scan (SpecScan)                              *)

\* the files in the order the scan meets them: /etc before /var/lib,
\* an unreadable directory contributing nothing
Encountered ==
    (IF etc_dir.readable THEN etc_dir.entries ELSE <<>>)
       \o (IF var_dir.readable THEN var_dir.entries ELSE <<>>)

Loadable(e) == e.kind = "file" /\ e.ext = "json" /\ e.content.state = "ok"

FirstOfName(k) ==
    /\ Loadable(Encountered[k])
    /\ \A h \in 1 .. k - 1 :
          Loadable(Encountered[h])
             => Encountered[h].content.name # Encountered[k].content.name

\* C12: LoadAllFanCurves never fails and returns one entry per curve name,
\* the entry of the first loadable file with that name in scan order (/etc
\* before /var/lib); files not ending in .json, files that do not parse and
\* unreadable directories contribute nothing.
C12_FirstFoundWins ==
    loaded_curves.state # "none" =>
       /\ loaded_curves.state = "ok"
       /\ \A i, j \in 1 .. Len(loaded_curves.curves) :
             loaded_curves.curves[i].name = loaded_curves.curves[j].name
                => i = j
       /\ \A i \in 1 .. Len(loaded_curves.curves) :
             \E k \in 1 .. Len(Encountered) :
                /\ FirstOfName(k)
                /\ loaded_curves.curves[i].name = Encountered[k].content.name
                /\ loaded_curves.curves[i].points
                      = Encountered[k].content.points
       /\ \A k \in 1 .. Len(Encountered) :
             FirstOfName(k) =>
                \E i \in 1 .. Len(loaded_curves.curves) :
                   loaded_curves.curves[i].name = Encountered[k].content.name

\* "Quiet" is stored in both directories with different points, next to a
\* file that does not parse, and the scan returned the one of /etc
C12_Witness ==
    /\ loaded_curves.state = "ok"
    /\ etc_dir.readable /\ var_dir.readable
    /\ \E i \in 1 .. Len(etc_dir.entries) :
          /\ Loadable(etc_dir.entries[i])
          /\ etc_dir.entries[i].content = CurveFile("Quiet", LoudPairs)
    /\ \E i \in 1 .. Len(etc_dir.entries) :
          etc_dir.entries[i].content = Garbage
    /\ \E i \in 1 .. Len(var_dir.entries) :
          /\ Loadable(var_dir.entries[i])
          /\ var_dir.entries[i].content = CurveFile("Quiet", QuietPairs)
    /\ loaded_curves.curves = << [name |-> "Quiet", points |-> LoudPairs] >>


-----------------------------------------------------------------------------
(* Properties of SetFanCurvePersistent (SpecPower)                          *)

PersistentSteps ==
    <<"apply", "mkdir_etc", "mkdir_var", "save_etc", "save_var",
      "save_default">>

Done(step) == \E i \in 1 .. Len(power_steps) : power_steps[i] = step

Stored(dir, stem) ==
    \E i \in 1 .. Len(dir.entries) :
       /\ dir.entries[i].stem = stem /\ dir.entries[i].ext = "json"
       /\ dir.entries[i].content
             = CurveFile(power_call.name, power_call.curve)

\* C13: SetFanCurvePersistent returns success only after the curve was
\* applied and then saved under /etc, under /var/lib and as /etc
\* default.json, in this order; a failing step ends the call with an error,
\* no later step is performed and the earlier ones are not undone.
C13_ApplyThenPersist ==
    /\ power_steps = SubSeq(PersistentSteps, 1, Len(power_steps))
    /\ power_result = "ok" => power_steps = PersistentSteps
    /\ power_result = "err" =>
          /\ power_pc = "idle"
          /\ Len(power_steps) < Len(PersistentSteps)
    /\ Done("apply") =>
          applied_curve = [name |-> power_call.name,
                           points |-> power_call.curve]
    /\ Done("save_etc") => Stored(etc_dir, file_stem(power_call.name))
    /\ Done("save_var") => Stored(var_dir, file_stem(power_call.name))
    /\ Done("save_default") => Stored(etc_dir, "default")

\* a call succeeded, and another one failed after saving under /etc
C13_Witness ==
    /\ power_calls = 2
    /\ power_result = "err"
    /\ power_steps = SubSeq(PersistentSteps, 1, 4)
    /\ power_call.name = "My Curve"
    /\ Stored(etc_dir, "my_curve")
    /\ HasFile(var_dir, "quiet") /\ ~HasFile(var_dir, "my_curve")


-----------------------------------------------------------------------------
(* Properties of the duty writes (SpecDuty)                                 *)

WriteLog == detector_result.log

IsDutyWrite(k) == WriteLog[k].file = "pwm"
IsEnableWrite(k) == WriteLog[k].file = "pwm_enable" /\ WriteLog[k].value = 1

EnableAttemptedBefore(k) ==
    /\ k > 1
    /\ IsEnableWrite(k - 1)
    /\ WriteLog[k - 1].fan = WriteLog[k].fan

\* a failed enable write is followed by the duty write, and only a failed
\* duty write (or, in set_fan_pwm, a missing fan or pwm<N> file) fails
EnableFailureTolerated ==
    /\ \A k \in 1 .. Len(WriteLog) :
          IsEnableWrite(k) =>
             /\ k < Len(WriteLog)
             /\ IsDutyWrite(k + 1)
             /\ WriteLog[k + 1].fan = WriteLog[k].fan
             /\ WriteLog[k + 1].value = detector_result.duty
    /\ detector_result.state = "err" =>
          \/ detector_result.op = "set_fan_pwm" /\ WriteLog = <<>>
          \/ /\ WriteLog # <<>>
             /\ IsDutyWrite(Len(WriteLog))
             /\ ~WriteLog[Len(WriteLog)].ok

\* C14 as claimed: in set_duty(Some(d)) and in set_fan_pwm every duty write
\* to pwm<N> comes right after an attempt to write "1" to pwm<N>_enable, and
\* a failed enable write neither prevents the duty write nor fails the call.
C14_EnableAlwaysAttempted ==
    detector_result.op \in {"set_duty", "set_fan_pwm"} =>
       /\ \A k \in 1 .. Len(WriteLog) :
             IsDutyWrite(k) => EnableAttemptedBefore(k)
       /\ EnableFailureTolerated

\* C14 as amended: set_duty(Some(d)) always attempts the enable write before
\* the duty write, set_fan_pwm does so when pwm<N>_enable exists and writes
\* the duty directly when it does not; a failed enable write neither
\* prevents the duty write nor fails the call.
C14_EnableAttemptedWhenPresent ==
    detector_result.op \in {"set_duty", "set_fan_pwm"} =>
       /\ \A k \in 1 .. Len(WriteLog) :
             IsDutyWrite(k) =>
                IF detector_result.op = "set_fan_pwm"
                   /\ hwmon[WriteLog[k].fan].pwm_enable = NoValue
                THEN k = 1
                ELSE EnableAttemptedBefore(k)
       /\ EnableFailureTolerated

\* set_duty went on after a failed enable write and set the duty; or
\* set_fan_pwm wrote the duty of a fan that has no enable file
C14_Witness ==
    \/ /\ detector_result.op = "set_duty"
       /\ detector_result.state = "ok"
       /\ Len(WriteLog) = 2
       /\ IsEnableWrite(1) /\ ~WriteLog[1].ok
       /\ IsDutyWrite(2) /\ WriteLog[2].ok
       /\ hwmon[WriteLog[2].fan].pwm = 128
    \/ /\ detector_result.op = "set_fan_pwm"
       /\ detector_result.state = "ok"
       /\ hwmon[detector_result.fan].pwm_enable = NoValue
       /\ hwmon[detector_result.fan].pwm = 255


-----------------------------------------------------------------------------
(* Properties of fan discovery (SpecDiscover)                               *)

\* the fans whose label and input files are present and whose label
\* contains "cpu" in any case
CpuFans ==
    {n \in FanNumbers :
        /\ hwmon[n].label_state = "ok"
        /\ hwmon[n].input
        /\ contains(to_lowercase(hwmon[n].label), <<"c", "p", "u">>)}

\* C15: discovery selects the lowest-numbered fan whose label contains
\* "cpu" whenever the files present include such a fan, and fails, leaving
\* the detector without fans, only when no present label matches.
C15_LowestCpuFanSelected ==
    detector_result.op = "find_fan_sensors" =>
       IF CpuFans # {}
       THEN /\ detector_result.state = "ok"
            /\ \A n \in CpuFans : detector_result.fan <= n
            /\ detector_result.fan \in CpuFans
            /\ fans # <<>>
            /\ fans[Len(fans)].fan_number = detector_result.fan
       ELSE /\ detector_result.state = "err"
            /\ fans = <<>>

-----------------------------------------------------------------------------
(* Properties of the monitoring loop (SpecMonitor)                          *)

\* the last tick met an error: its sensor read failed, or one of the calls
\* that apply the duty did
FailedTick ==
    \/ last_tick.result = "err"
    \/ \E k \in 1 .. Len(last_tick.log) : ~last_tick.log[k].ok

\* every tick but the first follows a sleep of the loop: a tick is never
\* run again without the sleep in between
TickFollowsSleep ==
    /\ mon_pc = "tick" => sleeps = ticks
    /\ mon_pc = "sleep" => sleeps + 1 = ticks

C20_MonitorFollowsDaemon ==
    (last_tick.sensors = "ok" /\ last_tick.after_change)
       => last_tick.curve = last_tick.daemon_curve

-----------------------------------------------------------------------------
(* Properties of the power daemon's main loop (SpecMain)                    *)

\* every iteration loads CONTINUE once, before its sleep and its fan step
LoadedOncePerIteration ==
    /\ main_pc = "while" => loads = fan_steps
    /\ main_pc \in {"sleep", "step", "exited"} => loads = fan_steps + 1

\* once CONTINUE is cleared the iteration under way makes its fan step, and
\* the load that follows ends the loop
OneStepAfterClear ==
    /\ steps_after_clear <= 1
    /\ (~CONTINUE /\ main_pc \in {"sleep", "step"}) => steps_after_clear = 0

\* C17 as stated: the flag is read once per iteration, at most one fan step
\* follows its clearing, and daemon() has returned only if a signal was
\* caught and the loop has exited.
C17_ReturnsOnlyAfterSignalAndExit ==
    /\ LoadedOncePerIteration
    /\ OneStepAfterClear
    /\ daemon_pc = "returned" => (caught \in Signals /\ main_pc = "exited")

\* C17 amended: as above, for the return of Ok(()); daemon() returns an
\* error only from its start-up, before the main loop and the signal
\* handling exist.
C17_ReturnsOkOnlyAfterSignalAndExit ==
    /\ LoadedOncePerIteration
    /\ OneStepAfterClear
    /\ (daemon_pc = "returned" /\ daemon_result = "ok")
          => (caught \in Signals /\ main_pc = "exited")
    /\ (daemon_pc = "returned" /\ daemon_result = "err")
          => (main_pc = "created" /\ signal_pc = "created")

\* daemon() has returned Ok after a signal that arrived during an
\* iteration, whose fan step was the last one
C17_Witness ==
    /\ daemon_pc = "returned"
    /\ daemon_result = "ok"
    /\ fan_steps >= 2
    /\ steps_after_clear = 1

-----------------------------------------------------------------------------
(* Properties of the daemon's start-up (SpecStartup)                        *)

\* C18: FanCurveDaemon::new never returns an error, and the config it
\* starts with is the persisted one or the four built-in curves with the
\* first as default.
C18_StartupAlwaysSucceeds ==
    /\ startup_pc # "err"
    /\ startup_pc = "ok" =>
          \/ config = FanCurveConfig_new
          \/ /\ config_file.state = "complete"
             /\ parses(config_file.doc)
             /\ config = from_json(config_file.doc)

-----------------------------------------------------------------------------
(* Properties of concurrent control-surface calls (SpecLocks)               *)

\* the lock a call is about to take
NeedsIndex(c) ==
    pc[c] \in {"set_lock_index", "add_lock_index", "remove_lock_index",
               "get_lock_index"}
NeedsConfig(c) ==
    pc[c] \in {"set_lock_config", "add_lock_config", "remove_lock_config",
               "default_lock_config", "get_lock_config", "save_lock"}

\* two calls each hold the lock the other is about to take
Deadlocked ==
    \E a, b \in DOMAIN pc :
       /\ a # b
       /\ NeedsConfig(a) /\ config_lock = b
       /\ NeedsIndex(b) /\ index_lock = a

-----------------------------------------------------------------------------
(* Properties of one application of the curve (SpecLoop)                    *)

\* the last application wrote, or tried to write, a duty value to a fan
ManualDutyWritten ==
    \E k \in 1 .. Len(last_tick.log) : last_tick.log[k].file = "pwm"

\* C21: an application made while the monitor has no curve never writes a
\* manual duty value to a fan.
C21_NoManualDutyWhileIdle ==
    (last_tick.steps # <<>> /\ last_tick.curve = NoCurve)
       => ~ManualDutyWritten

\* C22: a tick reads the sample, computes the duty and applies it, in that
\* order; a tick whose read failed made no actuator write, did not advance
\* last_log_time and left the loop running.
C22_FailedReadSkipsTick ==
    /\ last_tick.steps \in { <<>>, << "apply" >>, << "read" >>,
                             << "read", "compute", "apply" >> }
    /\ last_tick.log # <<>> =>
          last_tick.steps[Len(last_tick.steps)] = "apply"
    /\ last_tick.sensors = "err" =>
          /\ last_tick.steps = << "read" >>
          /\ last_tick.log = <<>>
          /\ ~last_tick.time_advanced
          /\ mon_pc \in {"sleep", "tick", "aborted"}

\* with a client, the sensor read of a tick failed and the loop sleeps
C22_Witness ==
    /\ system76_power_client
    /\ last_tick.sensors = "err"
    /\ mon_pc = "sleep"

\* C30: without a System76 Power client every tick of the loop fails at the
\* sample read and makes no write to any fan.
C30_NoClientNoWrite ==
    (~system76_power_client /\ last_tick.sensors # "none")
       => /\ last_tick.sensors = "err"
          /\ last_tick.result = "err"
          /\ last_tick.log = <<>>

\* a tick has failed without a client although a curve is set and the fan
\* detector holds the CPU fan, whose pwm file exists
C30_Witness ==
    /\ ~system76_power_client
    /\ current_fan_curve # NoCurve
    /\ fans # <<>>
    /\ hwmon[1].pwm # NoValue
    /\ ticks >= 1
    /\ last_tick.sensors = "err"

\* C23: once the daemon has started on a config whose default selection
\* names one of its curves, that curve is the currently selected one.
C23_DefaultSelectedAtStartup ==
    (/\ startup_pc = "ok"
     /\ config.default_curve_index # NoValue
     /\ config.default_curve_index < Len(config.curves))
       => current_curve_index = config.default_curve_index

-----------------------------------------------------------------------------
(* Properties of a failed save (Spec)                                       *)

\* the step with which the save_config_internal of caller c returns Err
SaveFails(c) ==
    /\ pc[c] \in {"save_mkdir", "save_tmp_open", "save_tmp_write",
                  "save_rename"}
    /\ pc'[c] \in {"save_lock", "done"}

\* ... and the error reaches ensure_config_saved, which retries or gives up
ErrorReturned(c) ==
    \/ pc'[c] = "save_lock" /\ retries'[c] = retries[c] - 1
    \/ pc'[c] = "done" /\ result'[c] = "save_failed"

\* C24 as stated: a failing save_config_internal leaves the config file as
\* it was and returns the error, and after a failed rename the temporary
\* file is gone.
C24_FailedSaveRemovesTemp ==
    [][\A c \in Callers :
          SaveFails(c) =>
             /\ config_file' = config_file
             /\ ErrorReturned(c)
             /\ pc[c] = "save_rename" => tmp_file' = Absent]_vars

\* C24 amended: a failing save_config_internal leaves the config file as it
\* was and returns the error; after a failed rename the temporary file is
\* gone or, when its removal fails too, is left as it was written.
C24_FailedSaveKeepsTarget ==
    [][\A c \in Callers :
          SaveFails(c) =>
             /\ config_file' = config_file
             /\ ErrorReturned(c)
             /\ pc[c] = "save_rename" => tmp_file' \in {Absent, tmp_file}]_vars

\* the first save of the first call failed at the rename: the complete
\* temporary file is still there, beside the config file the call found
C24_Witness ==
    \E c \in Callers :
       /\ ncalls = 1
       /\ attempts[c] = 1
       /\ pc[c] = "save_lock"
       /\ tmp_file.state = "complete"
       /\ config_file = pre[c].config_file

-----------------------------------------------------------------------------
(* The current index and the loaded config (SpecIndex)                      *)

\* every call of the control surface, GetCurrentFanCurve included, on a
\* daemon that loaded any of the config files
NextIndex ==
    \/ Next
    \/ \E c \in Callers :
          \/ get_current_fan_curve(c)
          \/ get_lock_config(c)
          \/ get_current_curve(c)

SpecIndex == Init /\ [][NextIndex]_vars

\* C25: when GetCurrentFanCurve holds both guards and is about to index
\* config.curves, the current index is below the number of curves, and no
\* call ends in the panic of an index out of bounds.
C25_IndexInRange ==
    \A c \in Callers :
       /\ pc[c] = "get_lock_index" => current_curve_index < Len(config.curves)
       /\ result[c] # "panic"

-----------------------------------------------------------------------------
(* A mutation whose save failed (Spec)                                      *)

\* the config a mutating call leaves in memory when it gets as far as saving
Mutated(cfg, index, cl) ==
    LET ps == cfg.curves[index + 1].points IN
    CASE cl.method = "AddFanCurvePoint" ->
            with_points(cfg, index, add_point(ps, cl.temp, cl.duty))
      [] cl.method = "RemoveFanCurvePoint" ->
            with_points(cfg, index, remove_last_point(ps))
      [] cl.method = "SetDefaultFanCurve" ->
            [cfg EXCEPT !.default_curve_index = position(cfg.curves, cl.name)]
      [] OTHER -> cfg

\* C27: a call of AddFanCurvePoint, RemoveFanCurvePoint or
\* SetDefaultFanCurve that returns the error of a failed save has kept its
\* mutation in memory, and every save that succeeds, of whichever call, puts
\* the whole config in memory on disk, kept mutations included.
C27_FailedSaveKeepsMutation ==
    \A c \in Callers :
       /\ (pc[c] = "done" /\ result[c] = "save_failed") =>
             /\ attempts[c] = SaveRetries /\ saved[c] = 0
             /\ config = Mutated(pre[c].config, pre[c].current_curve_index,
                                 call[c])
             /\ config_file = pre[c].config_file
       /\ pc[c] = "validate_lock" => config_file = Written(to_json(config))

\* a call that began with a config in memory that the complete file on disk
\* did not hold, left by a failed save, has just saved it
C27_Witness ==
    \E c \in Callers :
       /\ pc[c] = "validate_lock"
       /\ pre[c].config_file.state = "complete"
       /\ pre[c].config_file.doc # to_json(pre[c].config)
       /\ config_file = Written(to_json(config))

-----------------------------------------------------------------------------
(* The scale of a point added through the control surface (Spec)            *)

\* C28: after AddFanCurvePoint(temp, duty) is accepted with a duty in
\* percent, the current curve yields duty * 100 ten-thousandths at temp,
\* provided no other point of the curve has that temperature.
C28_StoredOnTenThousandthsScale ==
    \A c \in Callers :
       (/\ pc[c] = "done"
        /\ call[c].method = "AddFanCurvePoint"
        /\ result[c] = "ok"
        /\ current_curve_index < Len(config.curves)) =>
           LET ps == config.curves[current_curve_index + 1].points IN
           Cardinality({i \in 1 .. Len(ps) : ps[i].temp = call[c].temp}) = 1
              => calculate_duty_for_temperature(ps, call[c].temp * 1000)
                    = call[c].duty * 100

-----------------------------------------------------------------------------
(* Points of equal temperature (SpecEqual)                                  *)

MaxEqualPoints == 4     \* longest point list explored by SpecEqual

\* two duties at each of three temperatures, so that a list of four points
\* holds a repeated temperature strictly inside its range
EqualTemps  == {0, 30, 100}
EqualDuties == {1000, 5000}
\* 65566000 / 1000 wraps to 30 as i16
EqualCalcTemps == {0, 30000, 35000, 100000, 65566000}

AddEqualPoint(temp, duty) ==
    /\ Len(points) < MaxEqualPoints
    /\ points' = add_point(points, temp, duty)
    /\ calc' = NoCalc
    /\ UNCHANGED <<pwm_vars, daemon_vars, ext_vars>>

NextEqual ==
    \/ \E temp \in EqualTemps, duty \in EqualDuties : AddEqualPoint(temp, duty)
    \/ RemoveLastPoint
    \/ \E index \in 0 .. MaxEqualPoints : RemovePoint(index)
    \/ \E t \in EqualCalcTemps : Calculate(t)

SpecEqual == InitCurve /\ [][NextEqual]_vars

\* the `for i in 0..self.points.len() - 1` loop: the first pair that
\* brackets the temperature, 0 when the loop ends without one
RECURSIVE first_pair(_, _, _)
first_pair(ps, i, temp_tenths) ==
    IF i > Len(ps) - 1 THEN 0
    ELSE IF temp_tenths >= ps[i].temp /\ temp_tenths <= ps[i + 1].temp
         THEN i
         ELSE first_pair(ps, i + 1, temp_tenths)

\* the path without the return for a temperature at or below the first point
calculate_duty_path_unclamped(ps, temp_thousandths) ==
    IF ps = <<>> THEN [kind |-> "empty", i |-> 0]
    ELSE LET temp_tenths == AsI16(temp_thousandths \div 1000)
             i == first_pair(ps, 1, temp_tenths)
         IN  IF temp_tenths >= ps[Len(ps)].temp
             THEN [kind |-> "high", i |-> Len(ps)]
             ELSE IF i = 0 THEN [kind |-> "fallback", i |-> 0]
             ELSE [kind |-> "pair", i |-> i]

\* the return statement calculate_duty_for_temperature leaves through, and
\* the point or pair of points it reads there
calculate_duty_path(ps, temp_thousandths) ==
    IF ps = <<>> THEN [kind |-> "empty", i |-> 0]
    ELSE LET temp_tenths == AsI16(temp_thousandths \div 1000)
             i == first_pair(ps, 1, temp_tenths)
         IN  IF temp_tenths <= ps[1].temp THEN [kind |-> "low", i |-> 1]
             ELSE IF temp_tenths >= ps[Len(ps)].temp
             THEN [kind |-> "high", i |-> Len(ps)]
             ELSE IF i = 0 THEN [kind |-> "fallback", i |-> 0]
             ELSE [kind |-> "pair", i |-> i]

\* C29: on every curve built by add_point, remove_point and
\* remove_last_point, points of equal temperature included, and for every
\* temperature, calculate_duty_for_temperature interpolates only over a pair
\* of different temperatures (the divisor is never zero) and leaves through
\* the fallback only when the curve is empty; the duty is the one of the
\* return statement taken.
C29_NoEqualPairNoFallback ==
    calc.valid =>
       LET path == calculate_duty_path(points, calc.temp)
           temp_tenths == AsI16(calc.temp \div 1000)
       IN  /\ path.kind # "fallback"
           /\ path.kind = "empty" => points = <<>> /\ calc.duty = 0
           /\ path.kind \in {"low", "high"} => calc.duty = points[path.i].duty
           /\ path.kind = "pair" =>
                 /\ points[path.i].temp # points[path.i + 1].temp
                 /\ calc.duty = interpolate(points[path.i],
                                            points[path.i + 1], temp_tenths)

\* the temperature of two points of the curve, strictly inside the range of
\* the curve, was looked up: the pair before the two was interpolated over
C29_Witness ==
    /\ calc.valid
    /\ Len(points) = 4
    /\ points[2].temp = points[3].temp
    /\ points[2].duty # points[3].duty
    /\ AsI16(calc.temp \div 1000) = points[2].temp
    /\ calculate_duty_path(points, calc.temp) = [kind |-> "pair", i |-> 1]
    /\ calc.duty = points[2].duty

-----------------------------------------------------------------------------
(* Concurrent mutating calls and the file (SpecConcurrent)                  *)

\* the config the concurrent callers start from
ConcurrentConfig ==
    [curves |-> << FanCurveOf("Custom", << <<50, 5000>> >>),
                   FanCurveOf("Quiet", << <<20, 1000>>, <<80, 9000>> >>) >>,
     default_curve_index |-> NoValue]

InitConcurrent ==
    /\ DaemonStart(ConcurrentCallers, {ConcurrentConfig})
    /\ CurveInit /\ PwmIdle /\ ExtIdle

MaxConcurrentCalls == 2  \* calls of the two tasks explored by SpecConcurrent

\* a task takes a new call only while fewer than MaxConcurrentCalls were made
MayCall(c) == pc[c] = "idle" => ncalls < MaxConcurrentCalls

\* two tasks serve AddFanCurvePoint, RemoveFanCurvePoint and
\* SetDefaultFanCurve, each followed by ensure_config_saved
NextConcurrent ==
    \E c \in ConcurrentCallers :
       \/ MayCall(c) /\ add_fan_curve_point(c, 50, 50)
       \/ add_lock_config(c)
       \/ add_point_to_current(c)
       \/ MayCall(c) /\ remove_fan_curve_point(c)
       \/ remove_lock_config(c)
       \/ remove_point_of_current(c)
       \/ MayCall(c) /\ set_default_fan_curve(c, "Quiet")
       \/ set_default_index(c)
       \/ save_config_internal(c)
       \/ create_dir_all(c)
       \/ write_tmp_begin(c)
       \/ write_tmp_end(c)
       \/ rename_tmp(c)
       \/ validate_persistence(c)
       \/ validate_write_begin(c)
       \/ validate_write_end(c)
       \/ validate_load(c)
       \/ Return(c)

SpecConcurrent == InitConcurrent /\ [][NextConcurrent]_vars

\* C26: when every call made so far has returned, and returned success, the
\* config file holds the config in memory; and a save renames the temporary
\* file only while it holds the config guard under which it wrote the config
\* into it.
C26_FileEqualsMemory ==
    /\ (\A c \in ConcurrentCallers :
           /\ pc[c] \in {"idle", "done"}
           /\ result[c] \in {"none", "ok"})
          => config_file = Written(to_json(config))
    /\ \A c \in ConcurrentCallers :
          pc[c] = "save_rename" =>
             config_lock = c /\ tmp_file = Written(to_json(config))

\* what remains true: every save is a snapshot under the guard, and a
\* complete file found when all calls have returned success holds the config
SnapshotUnderGuard ==
    /\ (\A c \in ConcurrentCallers :
           /\ pc[c] \in {"idle", "done"}
           /\ result[c] \in {"none", "ok"})
          => \/ config_file = Written(to_json(config))
             \/ config_file.state = "partial"
    /\ \A c \in ConcurrentCallers :
          pc[c] = "save_rename" =>
             config_lock = c /\ tmp_file = Written(to_json(config))

=============================================================================
